---- MODULE Spec2Model ----
(***************************************************************************)
(* Per-frame scene batch collector (SceneBatchCollector) of rbfx.          *)
(*                                                                         *)
(* The model follows RenderPipeline/SceneBatchCollector.{h,cpp}: a frame   *)
(* is BeginFrame, ProcessVisibleDrawables, ProcessVisibleLights.  The      *)
(* parallel sections (ForEachParallel, AddWorkItem ... Complete) are       *)
(* modelled as one step per task, taken in any order on any thread, and    *)
(* closed by a step that is enabled only when no task is left (the         *)
(* barrier).                                                               *)
(*                                                                         *)
(* Indices into visibleLights_ are 1-based here (the code's index + 1), so *)
(* the code's sentinel M_MAX_UNSIGNED (2^32 - 1) is 0 here.                *)
(***************************************************************************)
EXTENDS Integers, Sequences, FiniteSets, Bags, TLC

\* ------------------------------------------------------------------ bounds

\* Largest scene of the visibility family (Init).
MaxVisDrawables == 2
\* Largest scene of the lighting family (InitLights).
MaxLitDrawables == 3
\* numThreads_ = workQueue_->GetNumThreads() + 1.
NumThreads == 2
\* Number of scene passes registered with AddScenePass.
NumPasses == 2
\* Largest scene of the shadow caster family (InitCasters).
MaxCasterDrawables == 3
\* Most lights of the accumulation family (InitAccumulate).
MaxAccLights == 9
\* Largest scene of the family of scenes that change (InitFrames).
MaxFrameDrawables == 3
\* Most calls of ProcessVisibleDrawables in one frame (SpecTwice).
MaxVisibilityCalls == 2
\* Threads that construct and destroy RmlUI objects (SpecRml).
NumRmlThreads == 2
\* Largest scene of the family of changing views (InitViews).
MaxViewDrawables == 2
\* Most calls of CollectLightVolumeBatches in one frame.
MaxVolumeCalls == 2
\* Largest scene of the penalty family (InitPenalty).
MaxPenaltyDrawables == 3
\* Most RmlUI objects constructed in a run (SpecRml).
MaxRmlObjects == 3
MaxGeometries == 2

\* ------------------------------------------------------- program constants

MaxVertexLights == 4
MaxPixelLights == 4
\* mainLightIndex_ when there is no main light: M_MAX_UNSIGNED (see above).
M_MAX_UNSIGNED == 0
\* A SceneLight* is named by the drawable index of its light, 1 or more.
nullptr == 0
\* Penalty of the main light is -M_LARGE_VALUE.
M_LARGE_VALUE == 100000000
\* M_LARGE_EPSILON is 0.00005 = 1 / LargeEpsilonInv.
LargeEpsilonInv == 20000

Threads == 1..NumThreads
Passes == 1..NumPasses

\* ------------------------------------------------------------------ scenes

\* Shadow map sizes (IntVector2) FinalizeShadowMap may assign.
ZERO == <<0, 0>>

\* A CachedDrawableZone: the point the zone was sampled at and the squared
\* distance the drawable may move from it.  Positions are on one axis.
CachedZoneOf(cachePosition, cacheInvalidationDistanceSquared) ==
    [ cachePosition_ |-> cachePosition,
      cacheInvalidationDistanceSquared_ |-> cacheInvalidationDistanceSquared ]

\* The cached zone of the drawables that do not differ in their zone: the
\* drawable is at its sample point.
SteadyZone == CachedZoneOf(0, 4)

\* A geometry of the scene, as the collector reads it through Drawable.
\* inDrawables: the drawable is in the vector given to
\* ProcessVisibleDrawables; center: the center of its world bounding box;
\* cachedZone: its cached zone when the frame begins; zoneInvalidation: the
\* invalidation distance of the zone Octree::QueryZone finds at its center;
\* edge: half the size of its world bounding box; numSplits: the shadow
\* splits its SceneLight has when it casts shadows.
GeometryOf(drawDistance, distance, batches) ==
    [ flags |-> {"DRAWABLE_GEOMETRY"}, drawDistance |-> drawDistance,
      distance |-> distance, batches |-> batches,
      effectiveColor |-> "BLACK", lightMaskEffective |-> 0,
      lightType |-> "NONE", intensityDivisor |-> 1,
      castShadows |-> FALSE, shadowMapSize |-> ZERO,
      updateGeometryType |-> "UPDATE_WORKER_THREAD",
      lightImportance |-> "LI_AUTO", inDrawables |-> TRUE,
      center |-> 0, cachedZone |-> SteadyZone, zoneInvalidation |-> 4,
      edge |-> 1, numSplits |-> 0 ]

\* A light of the scene, as the collector reads it through Light and SceneLight.
LightOf(drawDistance, distance, color, mask, type, divisor, castShadows, size) ==
    [ flags |-> {"DRAWABLE_LIGHT"}, drawDistance |-> drawDistance,
      distance |-> distance, batches |-> <<>>,
      effectiveColor |-> color, lightMaskEffective |-> mask,
      lightType |-> type, intensityDivisor |-> divisor,
      castShadows |-> castShadows, shadowMapSize |-> size,
      updateGeometryType |-> "UPDATE_NONE",
      lightImportance |-> "LI_AUTO", inDrawables |-> TRUE,
      center |-> 0, cachedZone |-> SteadyZone, zoneInvalidation |-> 4,
      edge |-> 1, numSplits |-> IF castShadows THEN 1 ELSE 0 ]

\* One source batch: whether Material::FindTechnique resolves a technique for
\* it and whether a scene pass reports it as lit.
LitBatch == [ hasTechnique |-> TRUE, isLit |-> TRUE ]
\* A batch no pass reports as lit, and a batch of a material without a
\* technique, which a pass would report as lit were it offered.
UnlitBatch == [ hasTechnique |-> TRUE, isLit |-> FALSE ]
NoTechniqueBatch == [ hasTechnique |-> FALSE, isLit |-> TRUE ]

\* (draw distance, distance from the camera) pairs.
CullCases == { <<0, 15>>, <<0 - 1, 15>>, <<10, 5>>, <<10, 10>>, <<10, 15>> }
LightCullCases == { <<0, 15>>, <<10, 15>> }

\* A geometry outside the view: it is not in the vector given to
\* ProcessVisibleDrawables and may cast a shadow into the view.
OffscreenGeometry ==
    [ GeometryOf(0, 5, <<LitBatch>>) EXCEPT !.inDrawables = FALSE ]

VisGeometries ==
    { GeometryOf(c[1], c[2], <<LitBatch>>) : c \in CullCases }
        \cup {OffscreenGeometry}
VisLights ==
    { LightOf(c[1], c[2], color, mask, "LIGHT_POINT", 1, TRUE, <<1, 1>>) :
        c \in LightCullCases, color \in {"BLACK", "WHITE"}, mask \in {0, 1} }
\* A drawable carrying both flags takes the geometry branch.
VisBoth ==
    { [ LightOf(0, 15, "WHITE", 1, "LIGHT_POINT", 1, FALSE, ZERO)
          EXCEPT !.flags = {"DRAWABLE_GEOMETRY", "DRAWABLE_LIGHT"},
                 !.batches = <<LitBatch>> ] }
VisTemplates == VisGeometries \cup VisLights \cup VisBoth

LightTypes == {"LIGHT_DIRECTIONAL", "LIGHT_POINT"}
IntensityDivisors == {1, 2}
ShadowMapSizes == { ZERO, <<1, 2>>, <<2, 1>>, <<2, 2>> }
\* Results of Light::GetDistanceTo(geometry).
LightDistances == {0, 3}

\* Lights that differ in what FindMainLight reads.
MainFamilyLights ==
    { LightOf(0, 5, "WHITE", 1, t, d, FALSE, ZERO) :
        t \in LightTypes, d \in IntensityDivisors }
\* Lights that differ in what the shadow map sort reads.
SortFamilyLights ==
    { LightOf(0, 5, "WHITE", 1, "LIGHT_POINT", 1, s # ZERO, s) :
        s \in ShadowMapSizes }
LitGeometry ==
    [ GeometryOf(0, 5, <<LitBatch>>)
        EXCEPT !.updateGeometryType = "UPDATE_MAIN_THREAD" ]

\* Scenes of n drawables: geometries first, then lights out of `lights`.
ScenesOf(n, lights) ==
    { s \in [1..n -> {LitGeometry} \cup lights] :
        \A i \in 1..n, j \in 1..n :
            (i < j /\ "DRAWABLE_GEOMETRY" \in s[j].flags)
                => "DRAWABLE_GEOMETRY" \in s[i].flags }

\* Light::GetID() of the light that is drawable d: distinct per light.
LightID(d) == 100 + d

VARIABLES
    drawables,                  \* octree_->GetAllDrawables(), by drawable index
    pc,                         \* where the frame is
    pending,                    \* work items of the open parallel section
    isUpdated,                  \* transient_.isUpdated_
    traits,                     \* transient_.traits_
    visibleGeometries_,         \* WorkQueueVector: one vector per thread
    visibleLightsTemp_,         \* WorkQueueVector: one vector per thread
    threadedGeometryUpdates_,   \* WorkQueueVector: one vector per thread
    nonThreadedGeometryUpdates_,\* WorkQueueVector: one vector per thread
    passBatches,                \* source batches the scene passes were offered
    visibleLights_,             \* drawable indices of the visible lights
    cachedSceneLights_,         \* SceneLight per light that has one
    shadowCastersToBeUpdated_,  \* shadow casters collected by the lights
    shadowPass_,                \* whether SetShadowPass gave a shadow pass
    mainLightIndex_,
    accLight,                   \* light index AccumulateForwardLighting runs for
    drawableLighting_,          \* DrawableLightAccumulator per drawable
    maxPixelLights_,
    lightVolumeBatches_,
    batchesUpdated,             \* UpdateBatches and MarkInView calls of the
                                \* frame, per drawable
    cachedZone,                 \* Drawable::GetMutableCachedZone(), per drawable
    zoneQueries,                \* Octree::QueryZone calls of the frame, per
                                \* drawable
    pipelineStateHashDirty,     \* set by MarkPipelineStateHashDirty, per drawable
    sceneLightsCreated,         \* SceneLights constructed so far, per light
    beginFrameCalls,            \* BeginFrame calls since any other step, up to 2
    sourceBatchCalls,           \* ScenePass::AddSourceBatch calls of the frame,
                                \* per drawable, in the order of the calls
    zRange,                     \* transient_.zRange_
    sceneZRange_,               \* SceneZRange: one range per thread
    shadowMapRequests,          \* GetTemporaryShadowMap calls of the frame, in
                                \* the order of the calls
    shaderParametersFinalized,  \* FinalizeShaderParameters calls of the frame
    shadowBatchesCollected,     \* CollectShadowBatches calls of the frame
    shadowBatchesFinalized,     \* FinalizeShadowBatches calls of the frame
    accumulatedLights,          \* light indices AccumulateLight was called
                                \* with in the frame, per drawable
    zoneTouches,                \* threads that took GetMutableCachedZone of the
                                \* drawable in the frame, per drawable
    hasShadowCalls,             \* callback_->HasShadow calls of the frame, in
                                \* the order of the calls
    sceneBatchCalls,            \* ScenePass::CollectSceneBatches and
                                \* SortSceneBatches calls of the frame, in the
                                \* order of the calls
    lightVolumeCalls,           \* CollectLightVolumeBatches calls of the frame
    rmlInstanceCounter,         \* static std::atomic<int> rmlInstanceCounter
    rmlPc,                      \* where each thread is in RmlUI::RmlUI or
                                \* RmlUI::~RmlUI
    rmlBackend,                 \* whether the RmlUi library is initialised
    rmlCalls                    \* Rml:: calls made so far

\* What the collector reads and writes through a Drawable.
drawableVars ==
    << batchesUpdated, cachedZone, zoneQueries, pipelineStateHashDirty,
       zoneTouches >>

\* What the visibility phase records on top of the containers.
visibilityVars == << sourceBatchCalls, zRange, sceneZRange_ >>

\* The calls ProcessVisibleLights makes to the callback, the SceneLights, the
\* shadow pass and the accumulators.
callVars ==
    << shadowMapRequests, shaderParametersFinalized, shadowBatchesCollected,
       shadowBatchesFinalized, accumulatedLights >>

\* The calls made to the callback and the scene passes after the visibility
\* phase, and the calls of CollectLightVolumeBatches.
passVars == << hasShadowCalls, sceneBatchCalls, lightVolumeCalls >>

\* The RmlUI subsystem and the RmlUi library.
rmlVars == << rmlInstanceCounter, rmlPc, rmlBackend, rmlCalls >>

vars == << drawables, pc, pending, isUpdated, traits, visibleGeometries_,
           visibleLightsTemp_, threadedGeometryUpdates_,
           nonThreadedGeometryUpdates_, passBatches, visibleLights_,
           cachedSceneLights_, shadowCastersToBeUpdated_, shadowPass_,
           mainLightIndex_, accLight, drawableLighting_, maxPixelLights_,
           lightVolumeBatches_, drawableVars, sceneLightsCreated,
           beginFrameCalls, visibilityVars, callVars, passVars, rmlVars >>

NumDrawables == Len(drawables)
DrawableIndices == 1..NumDrawables

\* ------------------------------------------------------------ containers

\* WorkQueueVector::Clear(numThreads).
ClearedVector == [t \in Threads |-> <<>>]

\* WorkQueueVector::PushBack(threadIndex, value).
PushBack(vector, threadIndex, value) ==
    [vector EXCEPT ![threadIndex] = Append(@, value)]

RECURSIVE Concat(_, _)
Concat(vector, t) ==
    IF t > NumThreads THEN <<>> ELSE vector[t] \o Concat(vector, t + 1)

\* Iteration over a WorkQueueVector: thread 0's elements, then thread 1's, ...
Elements(vector) == Concat(vector, 1)

Range(seq) == { seq[i] : i \in 1..Len(seq) }

\* The containers ProcessVisibleDrawablesForThread writes, as one record.
Collected ==
    [ isUpdated |-> isUpdated, traits |-> traits,
      visibleGeometries_ |-> visibleGeometries_,
      visibleLightsTemp_ |-> visibleLightsTemp_,
      threadedGeometryUpdates_ |-> threadedGeometryUpdates_,
      nonThreadedGeometryUpdates_ |-> nonThreadedGeometryUpdates_,
      passBatches |-> passBatches,
      drawableLighting_ |-> drawableLighting_,
      batchesUpdated |-> batchesUpdated, cachedZone |-> cachedZone,
      zoneQueries |-> zoneQueries,
      pipelineStateHashDirty |-> pipelineStateHashDirty,
      sourceBatchCalls |-> sourceBatchCalls, zRange |-> zRange,
      sceneZRange_ |-> sceneZRange_, zoneTouches |-> zoneTouches ]

\* A call that never returns.
CompleteNever(items) == FALSE

\* A call that returns while work items are left.
CompleteAtOnce(items) == TRUE

\* workQueue_->Complete(M_MAX_UNSIGNED) returns: no work item is left.
Complete(items) == items = {}

\* A loop that returns while work items are left.
ForEachParallelReturnsAtOnce(items) == TRUE

\* ForEachParallel returns: no work item is left.
ForEachParallelCompleted(items) == items = {}

\* ---------------------------------------------------------------- Z ranges

Abs(x) == IF x < 0 THEN 0 - x ELSE x
Min(x, y) == IF x < y THEN x ELSE y
Max(x, y) == IF x < y THEN y ELSE x

\* DrawableZRange{ minZ, maxZ }.
ZRangeOf(minZ, maxZ) == [ first |-> minZ, second |-> maxZ ]

\* DrawableZRange{}: a range that holds no value.
EmptyZRange == ZRangeOf(M_LARGE_VALUE, 0 - M_LARGE_VALUE)

\* DrawableZRange::IsValid().
IsValid(range) == range.first <= range.second

\* DrawableZRangeEvaluator(camera_), on the axis the drawables lie on: the
\* camera looks down the axis from the point 3.
ZRangeEvaluator == [ viewZ_ |-> 0 - 1, m23_ |-> 3, absViewZ_ |-> Abs(0 - 1) ]

\* edge.LengthSquared() >= M_LARGE_VALUE * M_LARGE_VALUE, for an edge on one
\* axis.
IsInfinite(edge) == Abs(edge) >= M_LARGE_VALUE

\* DrawableZRangeEvaluator::Evaluate(drawable).
Evaluate(evaluator, drawable) ==
    IF IsInfinite(drawable.edge) THEN EmptyZRange
    ELSE LET viewCenterZ == evaluator.viewZ_ * drawable.center + evaluator.m23_
             viewEdgeZ == evaluator.absViewZ_ * drawable.edge
         IN  ZRangeOf(viewCenterZ - viewEdgeZ, viewCenterZ + viewEdgeZ)

\* SceneZRange::Clear(numThreads).
ClearedZRange == [t \in Threads |-> EmptyZRange]

\* The smallest range that holds both ranges.
Merged(range, other) ==
    ZRangeOf(Min(range.first, other.first), Max(range.second, other.second))

\* SceneZRange::Accumulate(threadIndex, range): into the range of the thread.
Accumulate(sceneZRange, threadIndex, range) ==
    [sceneZRange EXCEPT ![threadIndex] = Merged(@, range)]

RECURSIVE GetFrom(_, _)
GetFrom(sceneZRange, t) ==
    IF t > NumThreads THEN EmptyZRange
    ELSE Merged(sceneZRange[t], GetFrom(sceneZRange, t + 1))

\* SceneZRange::Get(): the ranges of the threads, merged.
Get(sceneZRange) == GetFrom(sceneZRange, 1)

\* ------------------------------------------------------------- BeginFrame

\* BeginFrame, at the start of a frame or once more right after itself.
BeginFrame ==
    /\ pc \in {"idle", "begun"}
    /\ pc' = "begun"
    /\ visibleGeometries_' = ClearedVector
    /\ visibleLightsTemp_' = ClearedVector
    /\ shadowCastersToBeUpdated_' = EmptyBag
    /\ threadedGeometryUpdates_' = ClearedVector
    /\ nonThreadedGeometryUpdates_' = ClearedVector
    \* a new frameInfo_: no drawable is updated and no zone queried in it
    /\ batchesUpdated' = [d \in DrawableIndices |-> 0]
    /\ zoneQueries' = [d \in DrawableIndices |-> 0]
    /\ zoneTouches' = [d \in DrawableIndices |-> <<>>]
    /\ beginFrameCalls' = IF beginFrameCalls < 2 THEN beginFrameCalls + 1 ELSE 2
    \* transient_.Reset(numDrawables_)
    /\ isUpdated' = [d \in DrawableIndices |-> FALSE]
    /\ traits' = [d \in DrawableIndices |-> {}]
    \* drawableLighting_.resize(numDrawables_) keeps the elements it has
    /\ drawableLighting_' =
          [d \in DrawableIndices |->
              IF d \in DOMAIN drawableLighting_ THEN drawableLighting_[d] ELSE <<>>]
    /\ zRange' = [d \in DrawableIndices |-> EmptyZRange]
    /\ sceneZRange_' = ClearedZRange
    \* ScenePass::BeginFrame
    /\ passBatches' = {}
    /\ sourceBatchCalls' = [d \in DrawableIndices |-> <<>>]
    \* no call of ProcessVisibleLights is made in the frame yet
    /\ shadowMapRequests' = <<>>
    /\ shaderParametersFinalized' = <<>>
    /\ shadowBatchesCollected' = EmptyBag
    /\ shadowBatchesFinalized' = 0
    /\ accumulatedLights' = [d \in DrawableIndices |-> <<>>]
    /\ hasShadowCalls' = <<>>
    /\ sceneBatchCalls' = <<>>
    /\ lightVolumeCalls' = 0
    /\ UNCHANGED << drawables, pending, visibleLights_, cachedSceneLights_,
                    shadowPass_, mainLightIndex_, accLight, maxPixelLights_,
                    lightVolumeBatches_, cachedZone, pipelineStateHashDirty,
                    sceneLightsCreated, rmlVars >>

\* ------------------------------------------------- ProcessVisibleDrawables

\* "Skip if too far".
IsTooFarInclusive(drawable) ==
    /\ drawable.drawDistance > 0
    /\ drawable.distance >= drawable.drawDistance

IsTooFar(drawable) ==
    /\ drawable.drawDistance > 0
    /\ drawable.distance > drawable.drawDistance

IsGeometry(drawable) == "DRAWABLE_GEOMETRY" \in drawable.flags

\* The light branch is the else of the geometry branch.
IsLightNotElse(drawable) == "DRAWABLE_LIGHT" \in drawable.flags

IsLight(drawable) ==
    /\ ~IsGeometry(drawable)
    /\ "DRAWABLE_LIGHT" \in drawable.flags

\* "Skip lights with zero brightness or black color".
IsLightAcceptedColorOnly(light) == light.effectiveColor # "BLACK"

IsLightAccepted(light) ==
    /\ light.effectiveColor # "BLACK"
    /\ light.lightMaskEffective # 0

\* The source batches of drawable d that resolve a technique, offered to
\* every scene pass.
OfferedBatches(d) ==
    { [pass |-> p, drawable |-> d, batch |-> i] :
        p \in Passes,
        i \in { k \in 1..Len(drawables[d].batches) :
                    drawables[d].batches[k].hasTechnique } }

\* A trait that follows the batches whether they are offered or not.
AnyBatchLitOfAny(d) ==
    \E k \in 1..Len(drawables[d].batches) : drawables[d].batches[k].isLit

\* Whether some pass reports some offered batch of d as lit.
AnyBatchLit(d) ==
    \E b \in OfferedBatches(d) : drawables[d].batches[b.batch].isLit

\* (cachedZone.cachePosition_ - drawableCenter).LengthSquared().
DistanceSquared(cachePosition, drawableCenter) ==
    (cachePosition - drawableCenter) * (cachePosition - drawableCenter)

\* A test that keeps the cached zone at the invalidation distance.
IsZoneInvalidBeyond(zone, drawableCenter) ==
    DistanceSquared(zone.cachePosition_, drawableCenter)
        > zone.cacheInvalidationDistanceSquared_

\* if (drawableCacheDistanceSquared >= cachedZone.cacheInvalidationDistanceSquared_).
IsZoneInvalid(zone, drawableCenter) ==
    DistanceSquared(zone.cachePosition_, drawableCenter)
        >= zone.cacheInvalidationDistanceSquared_

\* octree_->QueryZone(drawableCenter, drawable->GetZoneMask()): the zone is
\* sampled at the center of the drawable.
QueryZone(d) ==
    CachedZoneOf(drawables[d].center, drawables[d].zoneInvalidation)

\* "Update zone", of the visibility phase and of the shadow caster update.
UpdateZone(c, d) ==
    IF IsZoneInvalid(c.cachedZone[d], drawables[d].center)
    THEN [ c EXCEPT !.cachedZone[d] = QueryZone(d),
                    !.zoneQueries[d] = @ + 1,
                    !.pipelineStateHashDirty[d] = TRUE ]
    ELSE c

\* A step that keeps the range as it was evaluated.
StoreZRangeAsEvaluated(c, threadIndex, d, range) ==
    IF ~IsValid(range)
    THEN [c EXCEPT !.zRange[d] = range]
    ELSE [c EXCEPT !.zRange[d] = range,
                   !.sceneZRange_ = Accumulate(@, threadIndex, range)]

\* A step that accumulates what it stored.
StoreZRangeAccumulateStored(c, threadIndex, d, range) ==
    LET stored == IF ~IsValid(range)
                  THEN ZRangeOf(M_LARGE_VALUE, M_LARGE_VALUE) ELSE range
    IN  [c EXCEPT !.zRange[d] = stored,
                  !.sceneZRange_ = Accumulate(@, threadIndex, stored)]

\* if (!zRange.IsValid()) transient_.zRange_[drawableIndex] =
\* { M_LARGE_VALUE, M_LARGE_VALUE }; else { transient_.zRange_[drawableIndex]
\* = zRange; sceneZRange_.Accumulate(threadIndex, zRange); }
StoreZRange(c, threadIndex, d, range) ==
    IF ~IsValid(range)
    THEN [c EXCEPT !.zRange[d] = ZRangeOf(M_LARGE_VALUE, M_LARGE_VALUE)]
    ELSE [c EXCEPT !.zRange[d] = range,
                   !.sceneZRange_ = Accumulate(@, threadIndex, range)]

\* A queue step that takes every geometry for one updated by the workers.
PushGeometryUpdateThreaded(c, threadIndex, d) ==
    [c EXCEPT !.threadedGeometryUpdates_ = PushBack(@, threadIndex, d)]

\* "Queue geometry update" of the visibility phase.
PushGeometryUpdate(c, threadIndex, d) ==
    IF drawables[d].updateGeometryType = "UPDATE_MAIN_THREAD"
    THEN [c EXCEPT !.nonThreadedGeometryUpdates_ = PushBack(@, threadIndex, d)]
    ELSE [c EXCEPT !.threadedGeometryUpdates_ = PushBack(@, threadIndex, d)]

\* The calls pass->AddSourceBatch(drawable, i, technique) for the batch i,
\* from the pass p on.
RECURSIVE AddSourceBatch(_, _)
AddSourceBatch(i, p) ==
    IF p > NumPasses THEN <<>>
    ELSE <<[batch |-> i, pass |-> p]>> \o AddSourceBatch(i, p + 1)

\* A loop that offers the batches of materials without a technique too.
RECURSIVE CollectBatchesAll(_, _)
CollectBatchesAll(d, i) ==
    IF i > Len(drawables[d].batches) THEN <<>>
    ELSE AddSourceBatch(i, 1) \o CollectBatchesAll(d, i + 1)

\* "Collect batches": the AddSourceBatch calls of the loop over the source
\* batches of d, from the batch i on.
RECURSIVE CollectBatches(_, _)
CollectBatches(d, i) ==
    IF i > Len(drawables[d].batches) THEN <<>>
    ELSE IF ~drawables[d].batches[i].hasTechnique
         THEN CollectBatches(d, i + 1)
         ELSE AddSourceBatch(i, 1) \o CollectBatches(d, i + 1)

\* The geometry branch of the loop body.
ProcessGeometry(c, threadIndex, d) ==
    LET zoned == [ UpdateZone(c, d) EXCEPT
                     !.zoneTouches[d] = Append(@, threadIndex) ]
        ranged == StoreZRange(zoned, threadIndex, d,
                              Evaluate(ZRangeEvaluator, drawables[d]))
        queued == PushGeometryUpdate(ranged, threadIndex, d)
    IN  [ queued EXCEPT
            !.visibleGeometries_ = PushBack(@, threadIndex, d),
            !.traits[d] = @ \cup {"DrawableVisibleGeometry"}
                            \cup (IF AnyBatchLit(d) THEN {"ForwardLit"} ELSE {}),
            !.passBatches = @ \cup OfferedBatches(d),
            !.sourceBatchCalls[d] = @ \o CollectBatches(d, 1),
            \* drawableLighting_[drawableIndex].Reset()
            !.drawableLighting_[d] = <<>> ]

\* The light branch of the loop body.
ProcessLight(c, threadIndex, d) ==
    IF IsLightAccepted(drawables[d])
    THEN [c EXCEPT !.visibleLightsTemp_ = PushBack(@, threadIndex, d)]
    ELSE c

\* The loop of ProcessVisibleDrawablesForThread over a span of drawables:
\* a drawable that is too far returns from the function.
RECURSIVE ProcessVisibleDrawablesForThread(_, _, _)
ProcessVisibleDrawablesForThread(c, threadIndex, span) ==
    IF span = <<>> THEN c
    ELSE
        LET d == Head(span)
            \* UpdateBatches, MarkInView, isUpdated_.test_and_set
            c1 == [c EXCEPT !.batchesUpdated[d] = @ + 1, !.isUpdated[d] = TRUE]
            c2 == IF IsGeometry(drawables[d])
                  THEN ProcessGeometry(c1, threadIndex, d) ELSE c1
            c3 == IF IsLight(drawables[d])
                  THEN ProcessLight(c2, threadIndex, d) ELSE c2
        IN  IF IsTooFar(drawables[d]) THEN c1
            ELSE ProcessVisibleDrawablesForThread(c3, threadIndex, Tail(span))

RECURSIVE Ascending(_)
Ascending(set) ==
    IF set = {} THEN <<>>
    ELSE LET m == CHOOSE x \in set : \A y \in set : x <= y
         IN  <<m>> \o Ascending(set \ {m})

\* A work item that hands the rest of the input to one call.
SpanOfChunk(d, rest) == <<d>> \o Ascending(rest \ {d})

\* The span the work item of drawable d hands to
\* ProcessVisibleDrawablesForThread: { &drawable, 1u }.
SpanOf(d, rest) == <<d>>

\* The vector of drawables ProcessVisibleDrawables is called with.
VisibleDrawables(scene) == { d \in 1..Len(scene) : scene[d].inDrawables }

\* ProcessVisibleDrawables is called: one work item per drawable of the
\* vector.
ProcessVisibleDrawables_Begin ==
    /\ pc = "begun"
    /\ pc' = "visibility"
    /\ pending' = VisibleDrawables(drawables)
    /\ beginFrameCalls' = 0
    /\ UNCHANGED << drawables, isUpdated, traits, visibleGeometries_,
                    visibleLightsTemp_, threadedGeometryUpdates_,
                    nonThreadedGeometryUpdates_, passBatches, visibleLights_,
                    cachedSceneLights_, shadowCastersToBeUpdated_, shadowPass_,
                    mainLightIndex_, accLight, drawableLighting_,
                    maxPixelLights_, lightVolumeBatches_, drawableVars,
                    sceneLightsCreated,
                    visibilityVars, callVars,
                    passVars, rmlVars >>

\* One work item of ForEachParallel, run by thread threadIndex.
ProcessVisibleDrawables_Task(threadIndex, d) ==
    /\ pc = "visibility"
    /\ d \in pending
    /\ \E span \in {SpanOf(d, pending)} :
       \E c \in {ProcessVisibleDrawablesForThread(Collected, threadIndex, span)} :
           /\ pending' = pending \ Range(span)
           /\ isUpdated' = c.isUpdated
           /\ traits' = c.traits
           /\ visibleGeometries_' = c.visibleGeometries_
           /\ visibleLightsTemp_' = c.visibleLightsTemp_
           /\ threadedGeometryUpdates_' = c.threadedGeometryUpdates_
           /\ nonThreadedGeometryUpdates_' = c.nonThreadedGeometryUpdates_
           /\ passBatches' = c.passBatches
           /\ drawableLighting_' = c.drawableLighting_
           /\ batchesUpdated' = c.batchesUpdated
           /\ cachedZone' = c.cachedZone
           /\ zoneQueries' = c.zoneQueries
           /\ pipelineStateHashDirty' = c.pipelineStateHashDirty
           /\ zoneTouches' = c.zoneTouches
           /\ sourceBatchCalls' = c.sourceBatchCalls
           /\ zRange' = c.zRange
           /\ sceneZRange_' = c.sceneZRange_
    /\ UNCHANGED << drawables, pc, visibleLights_, cachedSceneLights_,
                    shadowCastersToBeUpdated_, shadowPass_, mainLightIndex_,
                    accLight, maxPixelLights_, lightVolumeBatches_,
                    sceneLightsCreated, beginFrameCalls, callVars,
                    passVars, rmlVars >>

\* SceneLight(light).
NewSceneLight(d) ==
    [ light |-> d, hasShadow |-> FALSE, litGeometries |-> {},
      shadowCasters |-> {}, shadowMapSize |-> ZERO ]

\* A lookup that takes every light for a light without a SceneLight.
HasNoSceneLightEver(cache, light) == TRUE

\* auto& sceneLight = cachedSceneLights_[weakLight]; if (!sceneLight).
HasNoSceneLight(cache, light) == light \notin DOMAIN cache

\* The loop over visibleLightsTemp_ from index i on: the cache and the
\* number of SceneLights made per light.
RECURSIVE CacheSceneLights(_, _, _)
CacheSceneLights(lights, i, cached) ==
    IF i > Len(lights) THEN cached
    ELSE LET light == lights[i]
         IN  IF HasNoSceneLight(cached.cache, light)
             THEN CacheSceneLights(lights, i + 1,
                    [ cache |->
                        [d \in DOMAIN cached.cache \cup {light} |->
                            IF d = light THEN NewSceneLight(light)
                            ELSE cached.cache[d]],
                      created |->
                        [d \in DOMAIN cached.created \cup {light} |->
                            IF d = light
                            THEN (IF d \in DOMAIN cached.created
                                  THEN cached.created[d] + 1 ELSE 1)
                            ELSE cached.created[d]] ])
             ELSE CacheSceneLights(lights, i + 1, cached)

\* After the parallel section: visibleLights_ from visibleLightsTemp_, a
\* SceneLight made for every light that has none in cachedSceneLights_.
ProcessVisibleDrawables_End ==
    /\ pc = "visibility"
    /\ ForEachParallelCompleted(pending)
    /\ pc' = "visible"
    /\ \E lights \in {Elements(visibleLightsTemp_)} :
       \E cached \in {CacheSceneLights(lights, 1,
                        [ cache |-> cachedSceneLights_,
                          created |-> sceneLightsCreated ])} :
           /\ cachedSceneLights_' = cached.cache
           /\ sceneLightsCreated' = cached.created
           /\ visibleLights_' = lights
    /\ UNCHANGED << drawables, pending, isUpdated, traits, visibleGeometries_,
                    visibleLightsTemp_, threadedGeometryUpdates_,
                    nonThreadedGeometryUpdates_, passBatches,
                    shadowCastersToBeUpdated_, shadowPass_, mainLightIndex_,
                    accLight, drawableLighting_, maxPixelLights_,
                    lightVolumeBatches_, drawableVars, beginFrameCalls,
                    visibilityVars, callVars,
                    passVars, rmlVars >>

\* --------------------------------------------------- ProcessVisibleLights

\* The SceneLight of the light at index i of visibleLights_.
SceneLightAt(i) == cachedSceneLights_[visibleLights_[i]]

\* The Light at index i of visibleLights_.
LightAt(i) == drawables[visibleLights_[i]]

VisibleGeometrySet == Range(Elements(visibleGeometries_))

\* A callback that is asked about every light, with or without a shadow pass.
HasShadowCallsAlways(shadowPass, lights) == lights

\* The callback_->HasShadow calls of the loop over visibleLights_: the right
\* side of shadowPass_ && callback_->HasShadow(light) is evaluated only if
\* the left side holds.
HasShadowCalls(shadowPass, lights) == IF shadowPass THEN lights ELSE <<>>

\* SceneLight::BeginFrame(shadowPass_ && callback_->HasShadow(light)) for
\* every visible light, then one work item per light.
ProcessVisibleLights_Begin ==
    /\ pc = "visible"
    /\ pc' = "litGeometries"
    /\ cachedSceneLights_' =
          [d \in DOMAIN cachedSceneLights_ |->
              IF d \in Range(visibleLights_)
              THEN [ NewSceneLight(d) EXCEPT
                       !.hasShadow =
                           shadowPass_ /\ drawables[d].castShadows ]
              ELSE cachedSceneLights_[d]]
    /\ hasShadowCalls' = hasShadowCalls \o HasShadowCalls(shadowPass_, visibleLights_)
    /\ pending' = 1..Len(visibleLights_)
    /\ UNCHANGED << drawables, isUpdated, traits, visibleGeometries_,
                    visibleLightsTemp_, threadedGeometryUpdates_,
                    nonThreadedGeometryUpdates_, passBatches, visibleLights_,
                    shadowCastersToBeUpdated_, shadowPass_, mainLightIndex_,
                    accLight, drawableLighting_, maxPixelLights_,
                    lightVolumeBatches_, drawableVars, sceneLightsCreated,
                    beginFrameCalls,
                    visibilityVars, callVars, sceneBatchCalls,
                    lightVolumeCalls, rmlVars >>

\* A light that hands all its shadow casters over.
CastersToBeUpdatedAll(updated, casters) == casters

\* The shadow casters a light hands over to be updated: those whose
\* transient_.isUpdated_ flag it is the first to set.
CastersToBeUpdated(updated, casters) == { d \in casters : ~updated[d] }

\* SceneLight::UpdateLitGeometriesAndShadowCasters of the light at index i:
\* the lit geometries are visible geometries, the shadow casters are
\* geometries of the scene.
ProcessVisibleLights_LitGeometries(i) ==
    /\ pc = "litGeometries"
    /\ i \in pending
    /\ pending' = pending \ {i}
    /\ \E lit \in SUBSET VisibleGeometrySet :
       \E casters \in SUBSET { d \in DrawableIndices : IsGeometry(drawables[d]) } :
          /\ SceneLightAt(i).hasShadow \/ casters = {}
          /\ cachedSceneLights_' =
                [cachedSceneLights_ EXCEPT
                    ![visibleLights_[i]].litGeometries = lit,
                    ![visibleLights_[i]].shadowCasters = casters]
          /\ shadowCastersToBeUpdated_' =
                shadowCastersToBeUpdated_
                    (+) SetToBag(CastersToBeUpdated(isUpdated, casters))
          /\ isUpdated' = [d \in DOMAIN isUpdated |->
                              isUpdated[d] \/ d \in casters]
    /\ UNCHANGED << drawables, pc, traits, visibleGeometries_,
                    visibleLightsTemp_, threadedGeometryUpdates_,
                    nonThreadedGeometryUpdates_, passBatches, visibleLights_,
                    shadowPass_, mainLightIndex_, accLight, drawableLighting_,
                    maxPixelLights_, lightVolumeBatches_, drawableVars,
                    sceneLightsCreated, beginFrameCalls,
                    visibilityVars, callVars,
                    passVars, rmlVars >>

\* SceneLight::FinalizeShadowMap.
FinalizeShadowMap(sceneLight) ==
    [ sceneLight EXCEPT
        !.shadowMapSize = IF sceneLight.hasShadow
                          THEN drawables[sceneLight.light].shadowMapSize
                          ELSE ZERO ]

\* IntVector2::Length() is sqrt(x*x + y*y): two lengths compare as their
\* squares do.
LengthSquared(v) == v[1] * v[1] + v[2] * v[2]

\* compareShadowMapSize(lhs, rhs), the SceneLights taken from sceneLights.
CompareShadowMapSize(sceneLights, lhs, rhs) ==
    LET lhsSize == sceneLights[lhs].shadowMapSize
        rhsSize == sceneLights[rhs].shadowMapSize
    IN  IF lhsSize # rhsSize
        THEN LengthSquared(lhsSize) > LengthSquared(rhsSize)
        ELSE LightID(lhs) > LightID(rhs)

\* One step of an insertion sort: value moves towards the front past every
\* element it compares before.
RECURSIVE InsertSorted(_, _, _)
InsertSorted(sceneLights, sorted, value) ==
    IF sorted # <<>> /\ CompareShadowMapSize(sceneLights, value, sorted[Len(sorted)])
    THEN Append(InsertSorted(sceneLights, SubSeq(sorted, 1, Len(sorted) - 1), value),
                sorted[Len(sorted)])
    ELSE Append(sorted, value)

\* ea::sort(first, last, compareShadowMapSize): an insertion sort for the
\* lengths a frame has.
RECURSIVE SortLights(_, _, _)
SortLights(sceneLights, sorted, rest) ==
    IF rest = <<>> THEN sorted
    ELSE SortLights(sceneLights, InsertSorted(sceneLights, sorted, Head(rest)),
                    Tail(rest))

\* Work items over the shadow casters of every visible light: <<d, k>> for
\* the drawable d as a shadow caster of the light at index k.
ShadowCasterWorkItemsPerLight ==
    { item \in DrawableIndices \X (1..Len(visibleLights_)) :
        item[1] \in SceneLightAt(item[2]).shadowCasters }

\* ForEachParallel(workQueue_, 1u, shadowCastersToBeUpdated_, ...): one work
\* item <<d, k>> for the k-th time the drawable d is in the vector.
ShadowCasterWorkItems ==
    { item \in DrawableIndices \X (1..NumDrawables) :
        /\ item[1] \in BagToSet(shadowCastersToBeUpdated_)
        /\ item[2] <= CopiesIn(item[1], shadowCastersToBeUpdated_) }

\* The calls made for the light, by a loop that asks for a shadow map of any
\* size.
ShadowMapCallsOfAnySize(calls, light, shadowMapSize) ==
    [ requests |-> Append(calls.requests,
                          [light |-> light, size |-> shadowMapSize]),
      finalized |-> Append(calls.finalized, light) ]

\* The body of the loop "Assign shadow maps and finalize shadow parameters"
\* for one light: the GetTemporaryShadowMap and FinalizeShaderParameters
\* calls made so far, and the calls made for the light.
ShadowMapCalls(calls, light, shadowMapSize) ==
    [ requests |->
          IF shadowMapSize # ZERO
          THEN Append(calls.requests, [light |-> light, size |-> shadowMapSize])
          ELSE calls.requests,
      finalized |-> Append(calls.finalized, light) ]

\* The loop over visibleLights_ from index i on.
RECURSIVE AssignShadowMaps(_, _, _, _)
AssignShadowMaps(sceneLights, lights, i, calls) ==
    IF i > Len(lights) THEN calls
    ELSE AssignShadowMaps(sceneLights, lights, i + 1,
            ShadowMapCalls(calls, lights[i],
                           sceneLights[lights[i]].shadowMapSize))

\* After the barrier: FinalizeShadowMap of every light, the sort, the shadow
\* maps, then one work item per shadow caster to be updated.
ProcessVisibleLights_Sort ==
    /\ pc = "litGeometries"
    /\ Complete(pending)
    /\ pc' = "shadowCasters"
    /\ \E finalized \in
              {[d \in DOMAIN cachedSceneLights_ |->
                  IF d \in Range(visibleLights_)
                  THEN FinalizeShadowMap(cachedSceneLights_[d])
                  ELSE cachedSceneLights_[d]]} :
       \E sorted \in {SortLights(finalized, <<>>, visibleLights_)} :
       \E calls \in {AssignShadowMaps(finalized, sorted, 1,
                        [ requests |-> shadowMapRequests,
                          finalized |-> shaderParametersFinalized ])} :
           /\ cachedSceneLights_' = finalized
           /\ visibleLights_' = sorted
           /\ shadowMapRequests' = calls.requests
           /\ shaderParametersFinalized' = calls.finalized
    /\ pending' = ShadowCasterWorkItems
    /\ UNCHANGED << drawables, isUpdated, traits, visibleGeometries_,
                    visibleLightsTemp_, threadedGeometryUpdates_,
                    nonThreadedGeometryUpdates_, passBatches,
                    shadowCastersToBeUpdated_, shadowPass_, mainLightIndex_,
                    accLight, drawableLighting_, maxPixelLights_,
                    lightVolumeBatches_, drawableVars, sceneLightsCreated,
                    beginFrameCalls, visibilityVars, shadowBatchesCollected,
                    shadowBatchesFinalized, accumulatedLights,
                    passVars, rmlVars >>

\* A queue step that lacks the else.
QueueGeometryUpdateBoth(c, threadIndex, d) ==
    [ c EXCEPT
        !.nonThreadedGeometryUpdates_ =
            IF drawables[d].updateGeometryType = "UPDATE_MAIN_THREAD"
            THEN PushBack(@, threadIndex, d) ELSE @,
        !.threadedGeometryUpdates_ = PushBack(@, threadIndex, d) ]

\* "Queue geometry update" of the shadow caster update:
\* WorkQueueVector::Insert appends to the vector of the calling thread.
QueueGeometryUpdate(c, threadIndex, d) ==
    [ c EXCEPT
        !.nonThreadedGeometryUpdates_ =
            IF drawables[d].updateGeometryType = "UPDATE_MAIN_THREAD"
            THEN PushBack(@, threadIndex, d) ELSE @,
        !.threadedGeometryUpdates_ =
            IF drawables[d].updateGeometryType = "UPDATE_MAIN_THREAD"
            THEN @ ELSE PushBack(@, threadIndex, d) ]

\* The body of the shadow caster update for the drawable d.
UpdateShadowCaster(c, threadIndex, d) ==
    \* UpdateBatches, MarkInView
    LET c1 == [c EXCEPT !.batchesUpdated[d] = @ + 1]
        zoned == [ UpdateZone(c1, d) EXCEPT
                     !.zoneTouches[d] = Append(@, threadIndex) ]
    IN  QueueGeometryUpdate(zoned, threadIndex, d)

\* "Update batches for shadow casters": one work item, run by threadIndex.
ProcessVisibleLights_ShadowCaster(threadIndex, item) ==
    /\ pc = "shadowCasters"
    /\ item \in pending
    /\ pending' = pending \ {item}
    /\ \E c \in {UpdateShadowCaster(Collected, threadIndex, item[1])} :
           /\ nonThreadedGeometryUpdates_' = c.nonThreadedGeometryUpdates_
           /\ threadedGeometryUpdates_' = c.threadedGeometryUpdates_
           /\ batchesUpdated' = c.batchesUpdated
           /\ cachedZone' = c.cachedZone
           /\ zoneQueries' = c.zoneQueries
           /\ pipelineStateHashDirty' = c.pipelineStateHashDirty
           /\ zoneTouches' = c.zoneTouches
    /\ UNCHANGED << drawables, pc, isUpdated, traits, visibleGeometries_,
                    visibleLightsTemp_, passBatches, visibleLights_,
                    cachedSceneLights_, shadowCastersToBeUpdated_, shadowPass_,
                    mainLightIndex_, accLight, drawableLighting_,
                    maxPixelLights_, lightVolumeBatches_, sceneLightsCreated,
                    beginFrameCalls,
                    visibilityVars, callVars,
                    passVars, rmlVars >>

\* A score that takes the words "1 / intensityDivisor" for the score.
MainLightScoreInverse(light) == 3 - light.intensityDivisor

\* const float score = light->GetIntensityDivisor().
MainLightScore(light) == light.intensityDivisor

IsMainLightCandidateAny(light) == TRUE

\* if (light->GetLightType() != LIGHT_DIRECTIONAL) continue.
IsMainLightCandidate(light) == light.lightType = "LIGHT_DIRECTIONAL"

BeatsMainLightScoreOrEqual(score, mainLightScore) == score >= mainLightScore

\* if (score > mainLightScore).
BeatsMainLightScore(score, mainLightScore) == score > mainLightScore

\* The loop of FindMainLight from index i on.
RECURSIVE FindMainLightFrom(_, _, _, _)
FindMainLightFrom(lights, i, mainLightScore, mainLightIndex) ==
    IF i > Len(lights) THEN mainLightIndex
    ELSE LET light == drawables[lights[i]]
             score == MainLightScore(light)
         IN  IF IsMainLightCandidate(light)
                /\ BeatsMainLightScore(score, mainLightScore)
             THEN FindMainLightFrom(lights, i + 1, score, i)
             ELSE FindMainLightFrom(lights, i + 1, mainLightScore, mainLightIndex)

FindMainLight(lights) == FindMainLightFrom(lights, 1, 0, M_MAX_UNSIGNED)

\* A lookup that takes the first light for every light.
LitGeometriesOfFirst(lights, i) ==
    IF i <= Len(lights) THEN cachedSceneLights_[lights[1]].litGeometries ELSE {}

\* The lit geometries of the light at index i, none when there is no such
\* light.
LitGeometriesAt(lights, i) ==
    IF i <= Len(lights) THEN cachedSceneLights_[lights[i]].litGeometries ELSE {}

\* SceneLight::GetNumSplits().
GetNumSplits(sceneLight) ==
    IF sceneLight.hasShadow THEN drawables[sceneLight.light].numSplits ELSE 0

\* A loop that takes the split count for the last split index.
ShadowBatchWorkItemsInclusive(lights) ==
    UNION { { <<i, splitIndex>> :
                splitIndex \in 0..GetNumSplits(cachedSceneLights_[lights[i]]) } :
            i \in 1..Len(lights) }

\* "Collect shadow caster batches": one work item <<i, splitIndex>> for every
\* light at index i and every splitIndex < numSplits.
ShadowBatchWorkItems(lights) ==
    UNION { { <<i, splitIndex>> :
                splitIndex \in 0..(GetNumSplits(cachedSceneLights_[lights[i]]) - 1) } :
            i \in 1..Len(lights) }

\* After the shadow caster update: one work item per light and split.
ProcessVisibleLights_ShadowBatches ==
    /\ pc = "shadowCasters"
    /\ ForEachParallelCompleted(pending)
    /\ pc' = "shadowBatches"
    /\ pending' = ShadowBatchWorkItems(visibleLights_)
    /\ UNCHANGED << drawables, isUpdated, traits, visibleGeometries_,
                    visibleLightsTemp_, threadedGeometryUpdates_,
                    nonThreadedGeometryUpdates_, passBatches, visibleLights_,
                    cachedSceneLights_, shadowCastersToBeUpdated_, shadowPass_,
                    mainLightIndex_, accLight, drawableLighting_,
                    maxPixelLights_, lightVolumeBatches_, drawableVars,
                    sceneLightsCreated, beginFrameCalls,
                    visibilityVars, callVars,
                    passVars, rmlVars >>

\* One work item: shadowPass_->CollectShadowBatches(materialQuality_,
\* sceneLight, splitIndex).
ProcessVisibleLights_CollectShadowBatches(item) ==
    /\ pc = "shadowBatches"
    /\ item \in pending
    /\ pending' = pending \ {item}
    /\ shadowBatchesCollected' =
          shadowBatchesCollected
              (+) SetToBag({ <<visibleLights_[item[1]], item[2]>> })
    /\ UNCHANGED << drawables, pc, isUpdated, traits, visibleGeometries_,
                    visibleLightsTemp_, threadedGeometryUpdates_,
                    nonThreadedGeometryUpdates_, passBatches, visibleLights_,
                    cachedSceneLights_, shadowCastersToBeUpdated_, shadowPass_,
                    mainLightIndex_, accLight, drawableLighting_,
                    maxPixelLights_, lightVolumeBatches_, drawableVars,
                    sceneLightsCreated, beginFrameCalls, visibilityVars,
                    shadowMapRequests, shaderParametersFinalized,
                    shadowBatchesFinalized, accumulatedLights,
                    passVars, rmlVars >>

\* After the barrier: FinalizeShadowBatches, FindMainLight, and
\* AccumulateForwardLighting of the first light.
ProcessVisibleLights_FindMainLight ==
    /\ pc = "shadowBatches"
    /\ Complete(pending)
    \* if (shadowPass_) shadowPass_->FinalizeShadowBatches(camera_, *callback_)
    /\ shadowBatchesFinalized' =
          IF shadowPass_ THEN shadowBatchesFinalized + 1
          ELSE shadowBatchesFinalized
    /\ mainLightIndex_' = FindMainLight(visibleLights_)
    /\ accLight' = 1
    /\ pending' = LitGeometriesAt(visibleLights_, 1)
    /\ pc' = IF Len(visibleLights_) = 0 THEN "lit" ELSE "accumulate"
    /\ UNCHANGED << drawables, isUpdated, traits, visibleGeometries_,
                    visibleLightsTemp_, threadedGeometryUpdates_,
                    nonThreadedGeometryUpdates_, passBatches, visibleLights_,
                    cachedSceneLights_, shadowCastersToBeUpdated_, shadowPass_,
                    drawableLighting_, maxPixelLights_, lightVolumeBatches_,
                    drawableVars, sceneLightsCreated, beginFrameCalls,
                    visibilityVars, shadowMapRequests,
                    shaderParametersFinalized, shadowBatchesCollected,
                    accumulatedLights,
                    passVars, rmlVars >>

\* Penalties are fractions num / den with den > 0.
PenaltyLess(p, q) ==
    IF (p.num < 0) # (q.num < 0) THEN p.num < 0
    ELSE p.num * q.den < q.num * p.den

\* A penalty that does not single out the main light.
LightPenaltyNoMainLight(isMainLight, distance, intensityDivisor) ==
    IF distance < 1
    THEN [num |-> 1, den |-> LargeEpsilonInv * intensityDivisor]
    ELSE [num |-> distance, den |-> intensityDivisor]

\* A penalty of the distance as Light::GetDistanceTo returns it.
LightPenaltyNoFloor(isMainLight, distance, intensityDivisor) ==
    IF isMainLight THEN [num |-> 0 - M_LARGE_VALUE, den |-> 1]
    ELSE [num |-> distance, den |-> intensityDivisor]

\* penalty = lightIndex == mainLightIndex_ ? -M_LARGE_VALUE
\*     : max(distance, M_LARGE_EPSILON) * (1 / intensityDivisor),
\* for a distance that is a whole number: a distance below 1 is below
\* M_LARGE_EPSILON or it is 0.
LightPenalty(isMainLight, distance, intensityDivisor) ==
    IF isMainLight THEN [num |-> 0 - M_LARGE_VALUE, den |-> 1]
    ELSE IF distance < 1
         THEN [num |-> 1, den |-> LargeEpsilonInv * intensityDivisor]
         ELSE [num |-> distance, den |-> intensityDivisor]

\* The number of per-pixel light slots of an accumulator: the budget
\* maxPixelLights_, at most MaxPixelLights.
PixelLightSlots(maxPixelLights) ==
    IF maxPixelLights < MaxPixelLights THEN maxPixelLights ELSE MaxPixelLights

\* The number of lights an accumulator holds at most: its per-pixel and its
\* MaxVertexLights per-vertex slots.
AccumulatorCapacity(maxPixelLights) ==
    PixelLightSlots(maxPixelLights) + MaxVertexLights

\* The place of a new entry in the ranked list: behind every entry whose
\* penalty is not higher.
RECURSIVE InsertByPenalty(_, _)
InsertByPenalty(lights, entry) ==
    IF lights # <<>> /\ PenaltyLess(entry.penalty, lights[Len(lights)].penalty)
    THEN Append(InsertByPenalty(SubSeq(lights, 1, Len(lights) - 1), entry),
                lights[Len(lights)])
    ELSE Append(lights, entry)

\* The entry AccumulateLight(ctx, penalty) adds.
AccumulatedEntry(ctx, penalty) ==
    [ penalty |-> penalty, lightIndex |-> ctx.lightIndex_,
      lightImportance |-> ctx.lightImportance_ ]

\* An accumulator that never drops a light.
AccumulateLightUnbounded(lights, ctx, penalty) ==
    InsertByPenalty(lights, AccumulatedEntry(ctx, penalty))

\* An accumulator that gives a slot to a light as bad as its worst.
AccumulateLightEvictOnEqual(lights, ctx, penalty) ==
    IF Len(lights) < AccumulatorCapacity(ctx.maxPixelLights_)
    THEN InsertByPenalty(lights, AccumulatedEntry(ctx, penalty))
    ELSE IF ~PenaltyLess(lights[Len(lights)].penalty, penalty)
         THEN InsertByPenalty(SubSeq(lights, 1, Len(lights) - 1),
                              AccumulatedEntry(ctx, penalty))
         ELSE lights

\* DrawableLightAccumulator::AccumulateLight(ctx, penalty).
AccumulateLight(lights, ctx, penalty) ==
    IF Len(lights) < AccumulatorCapacity(ctx.maxPixelLights_)
    THEN InsertByPenalty(lights, AccumulatedEntry(ctx, penalty))
    ELSE IF PenaltyLess(penalty, lights[Len(lights)].penalty)
         THEN InsertByPenalty(SubSeq(lights, 1, Len(lights) - 1),
                              AccumulatedEntry(ctx, penalty))
         ELSE lights

\* DrawableLightAccumulator::GetVertexLights(): the light indices of the
\* per-vertex slots, M_MAX_UNSIGNED in the unused ones.
AccumulatorVertexLights(lights, maxPixelLights) ==
    [ i \in 1..MaxVertexLights |->
        IF PixelLightSlots(maxPixelLights) + i <= Len(lights)
        THEN lights[PixelLightSlots(maxPixelLights) + i].lightIndex
        ELSE M_MAX_UNSIGNED ]

\* GetVertexLightIndices(drawableIndex).
GetVertexLightIndices(drawableIndex) ==
    AccumulatorVertexLights(drawableLighting_[drawableIndex], maxPixelLights_)

\* A lookup that takes the slot for the index of the light.
GetVertexLightsBySlot(drawableIndex) ==
    [ i \in 1..MaxVertexLights |->
        IF GetVertexLightIndices(drawableIndex)[i] # M_MAX_UNSIGNED
        THEN visibleLights_[i] ELSE nullptr ]

\* GetVertexLights(drawableIndex): a SceneLight* is named by its light.
GetVertexLights(drawableIndex) ==
    [ i \in 1..MaxVertexLights |->
        IF GetVertexLightIndices(drawableIndex)[i] # M_MAX_UNSIGNED
        THEN visibleLights_[GetVertexLightIndices(drawableIndex)[i]]
        ELSE nullptr ]

\* DrawableLightDataAccumulationContext of AccumulateForwardLighting.
AccumContext(lightIndex, light) ==
    [ maxPixelLights_ |-> maxPixelLights_,
      lightImportance_ |-> light.lightImportance,
      lightIndex_ |-> lightIndex ]

\* One work item of AccumulateForwardLighting(accLight): the geometry g, at
\* one of the given distances from the light.
AccumulateForwardLighting_TaskAt(g, distances) ==
    /\ pc = "accumulate"
    /\ g \in pending
    /\ pending' = pending \ {g}
    /\ \E distance \in distances :
          LET light == LightAt(accLight)
              accumContext == AccumContext(accLight, light)
              penalty == LightPenalty(accLight = mainLightIndex_, distance,
                                      light.intensityDivisor)
          IN  drawableLighting_' =
                  [drawableLighting_ EXCEPT
                      ![g] = AccumulateLight(@, accumContext, penalty)]
    /\ accumulatedLights' = [accumulatedLights EXCEPT ![g] = Append(@, accLight)]
    /\ UNCHANGED << drawables, pc, isUpdated, traits, visibleGeometries_,
                    visibleLightsTemp_, threadedGeometryUpdates_,
                    nonThreadedGeometryUpdates_, passBatches, visibleLights_,
                    cachedSceneLights_, shadowCastersToBeUpdated_, shadowPass_,
                    mainLightIndex_, accLight, maxPixelLights_,
                    lightVolumeBatches_, drawableVars, sceneLightsCreated,
                    beginFrameCalls, visibilityVars, shadowMapRequests,
                    shaderParametersFinalized, shadowBatchesCollected,
                    shadowBatchesFinalized,
                    passVars, rmlVars >>

\* One work item of AccumulateForwardLighting(accLight): the geometry g.
AccumulateForwardLighting_Task(g) ==
    AccumulateForwardLighting_TaskAt(g, LightDistances)

\* The end of AccumulateForwardLighting(accLight): the next light, or the end
\* of ProcessVisibleLights.
AccumulateForwardLighting_End ==
    /\ pc = "accumulate"
    /\ ForEachParallelCompleted(pending)
    /\ accLight' = accLight + 1
    /\ pending' = LitGeometriesAt(visibleLights_, accLight + 1)
    /\ pc' = IF accLight + 1 > Len(visibleLights_) THEN "lit" ELSE "accumulate"
    /\ UNCHANGED << drawables, isUpdated, traits, visibleGeometries_,
                    visibleLightsTemp_, threadedGeometryUpdates_,
                    nonThreadedGeometryUpdates_, passBatches, visibleLights_,
                    cachedSceneLights_, shadowCastersToBeUpdated_, shadowPass_,
                    mainLightIndex_, drawableLighting_, maxPixelLights_,
                    lightVolumeBatches_, drawableVars, sceneLightsCreated,
                    beginFrameCalls,
                    visibilityVars, callVars,
                    passVars, rmlVars >>

\* ----------------------------------------------------- CollectSceneBatches

\* A loop that sorts every pass before it collects its batches.
RECURSIVE ScenePassCallsSortFirst(_, _)
ScenePassCallsSortFirst(passes, i) ==
    IF i > Len(passes) THEN <<>>
    ELSE << [ pass |-> passes[i], call |-> "SortSceneBatches" ],
            [ pass |-> passes[i], call |-> "CollectSceneBatches",
              mainLightIndex |-> mainLightIndex_,
              visibleLights |-> visibleLights_,
              drawableLighting |-> drawableLighting_ ] >>
            \o ScenePassCallsSortFirst(passes, i + 1)

\* The calls of the loop over passes2_, from the pass at index i on:
\* pass->CollectSceneBatches(mainLightIndex_, visibleLights_,
\* drawableLighting_, camera_, *callback_), then pass->SortSceneBatches().
RECURSIVE ScenePassCalls(_, _)
ScenePassCalls(passes, i) ==
    IF i > Len(passes) THEN <<>>
    ELSE << [ pass |-> passes[i], call |-> "CollectSceneBatches",
              mainLightIndex |-> mainLightIndex_,
              visibleLights |-> visibleLights_,
              drawableLighting |-> drawableLighting_ ],
            [ pass |-> passes[i], call |-> "SortSceneBatches" ] >>
            \o ScenePassCalls(passes, i + 1)

\* CollectSceneBatches(), called once when ProcessVisibleLights has returned;
\* in passes2_ after the AddScenePass calls pass p is the p-th registered.
CollectSceneBatches ==
    /\ pc = "lit"
    /\ sceneBatchCalls = <<>>
    /\ sceneBatchCalls' = ScenePassCalls([p \in Passes |-> p], 1)
    /\ UNCHANGED << drawables, pc, pending, isUpdated, traits,
                    visibleGeometries_, visibleLightsTemp_,
                    threadedGeometryUpdates_, nonThreadedGeometryUpdates_,
                    passBatches, visibleLights_, cachedSceneLights_,
                    shadowCastersToBeUpdated_, shadowPass_, mainLightIndex_,
                    accLight, drawableLighting_, maxPixelLights_,
                    lightVolumeBatches_, drawableVars, sceneLightsCreated,
                    beginFrameCalls, visibilityVars, callVars,
                    hasShadowCalls, lightVolumeCalls, rmlVars >>

\* ------------------------------------------------------- UpdateGeometries

\* UpdateGeometries(): the drawables whose UpdateGeometry is called, in the
\* order of the calls.
UpdateGeometries ==
    Elements(threadedGeometryUpdates_) \o Elements(nonThreadedGeometryUpdates_)

\* ---------------------------------------------- CollectLightVolumeBatches

\* A call that keeps the batches lightVolumeBatches_ holds.
LightVolumeBatchesKept(batches, lights) ==
    batches \o [ i \in 1..Len(lights) |-> [ lightIndex_ |-> i ] ]

\* lightVolumeBatches_ after the clear() and the loop over visibleLights_.
LightVolumeBatches(batches, lights) ==
    [ i \in 1..Len(lights) |-> [ lightIndex_ |-> i ] ]

\* CollectLightVolumeBatches(), called when ProcessVisibleLights has
\* returned, up to MaxVolumeCalls times in a frame.
CollectLightVolumeBatches ==
    /\ pc = "lit"
    /\ lightVolumeCalls < MaxVolumeCalls
    /\ lightVolumeCalls' = lightVolumeCalls + 1
    /\ lightVolumeBatches_' =
          LightVolumeBatches(lightVolumeBatches_, visibleLights_)
    /\ UNCHANGED << drawables, pc, pending, isUpdated, traits,
                    visibleGeometries_, visibleLightsTemp_,
                    threadedGeometryUpdates_, nonThreadedGeometryUpdates_,
                    passBatches, visibleLights_, cachedSceneLights_,
                    shadowCastersToBeUpdated_, shadowPass_, mainLightIndex_,
                    accLight, drawableLighting_, maxPixelLights_,
                    drawableVars, sceneLightsCreated, beginFrameCalls,
                    visibilityVars, callVars, hasShadowCalls,
                    sceneBatchCalls, rmlVars >>

\* ------------------------------------------------------ the scene graph

\* Light::SetColor between two frames.
Recolored(light) ==
    [ light EXCEPT
        !.effectiveColor = IF @ = "BLACK" THEN "WHITE" ELSE "BLACK" ]

\* What a scene may be in the next frame: its last drawables are destroyed,
\* lights change their color.  The drawables that stay keep their index.
SceneUpdates(scene) ==
    { [ d \in 1..n |-> IF d \in recolored THEN Recolored(scene[d])
                                           ELSE scene[d] ] :
        n \in 0..Len(scene),
        recolored \in SUBSET { d \in 1..Len(scene) : IsLight(scene[d]) } }

\* The caller leaves the frame between two calls and the scene changes
\* before the next BeginFrame.
UpdateScene ==
    /\ pc \in {"begun", "visible", "lit"}
    /\ pc' = "idle"
    /\ beginFrameCalls' = 0
    /\ \E scene \in SceneUpdates(drawables) :
          /\ drawables' = scene
          /\ cachedZone' = [d \in 1..Len(scene) |-> cachedZone[d]]
          /\ pipelineStateHashDirty' =
                [d \in 1..Len(scene) |-> pipelineStateHashDirty[d]]
    /\ UNCHANGED << pending, isUpdated, traits, visibleGeometries_,
                    visibleLightsTemp_, threadedGeometryUpdates_,
                    nonThreadedGeometryUpdates_, passBatches, visibleLights_,
                    cachedSceneLights_, shadowCastersToBeUpdated_, shadowPass_,
                    mainLightIndex_, accLight, drawableLighting_,
                    maxPixelLights_, lightVolumeBatches_, batchesUpdated,
                    zoneQueries, zoneTouches, sceneLightsCreated,
                    visibilityVars, callVars,
                    passVars, rmlVars >>

\* The camera moves between two frames: the next frame is given other
\* drawables of the same scene, any of them.
UpdateView ==
    /\ pc = "lit"
    /\ pc' = "idle"
    /\ beginFrameCalls' = 0
    /\ \E inView \in SUBSET DrawableIndices :
          drawables' = [ d \in DrawableIndices |->
                           [ drawables[d] EXCEPT
                               !.inDrawables = (d \in inView) ] ]
    /\ UNCHANGED << pending, isUpdated, traits, visibleGeometries_,
                    visibleLightsTemp_, threadedGeometryUpdates_,
                    nonThreadedGeometryUpdates_, passBatches, visibleLights_,
                    cachedSceneLights_, shadowCastersToBeUpdated_, shadowPass_,
                    mainLightIndex_, accLight, drawableLighting_,
                    maxPixelLights_, lightVolumeBatches_, batchesUpdated,
                    cachedZone, zoneQueries, pipelineStateHashDirty,
                    zoneTouches, sceneLightsCreated,
                    visibilityVars, callVars, passVars, rmlVars >>

\* ProcessVisibleDrawables is called once more in the frame, with the same
\* drawables.
ProcessVisibleDrawables_Again ==
    /\ pc = "visible"
    /\ \A d \in DrawableIndices : batchesUpdated[d] < MaxVisibilityCalls
    /\ pc' = "visibility"
    /\ pending' = VisibleDrawables(drawables)
    /\ UNCHANGED << drawables, isUpdated, traits, visibleGeometries_,
                    visibleLightsTemp_, threadedGeometryUpdates_,
                    nonThreadedGeometryUpdates_, passBatches, visibleLights_,
                    cachedSceneLights_, shadowCastersToBeUpdated_, shadowPass_,
                    mainLightIndex_, accLight, drawableLighting_,
                    maxPixelLights_, lightVolumeBatches_, drawableVars,
                    sceneLightsCreated, beginFrameCalls,
                    visibilityVars, callVars,
                    passVars, rmlVars >>

\* ------------------------------------------------------------------ RmlUI

\* No RmlUI object was constructed yet by the threads that construct and
\* destroy RmlUI objects: rmlInstanceCounter is a static with
\* zero initialisation and the library is not initialised.
RmlUnused ==
    /\ rmlInstanceCounter = 0
    /\ rmlPc = [t \in 1..NumRmlThreads |-> "none"]
    /\ rmlBackend = "down"
    /\ rmlCalls = [ RmlUI |-> 0, Initialise |-> 0, Shutdown |-> 0,
                    CreateContext |-> 0, withoutLibrary |-> FALSE ]

\* ------------------------------------------------------- specifications

\* No call of ProcessVisibleLights was made for the scene.
NoCallsMade(scene) ==
    /\ RmlUnused
    /\ hasShadowCalls = <<>>
    /\ sceneBatchCalls = <<>>
    /\ lightVolumeCalls = 0
    /\ shadowMapRequests = <<>>
    /\ shaderParametersFinalized = <<>>
    /\ shadowBatchesCollected = EmptyBag
    /\ shadowBatchesFinalized = 0
    /\ accumulatedLights = [d \in 1..Len(scene) |-> <<>>]

\* The collector after construction, before the first frame of a scene.
Constructed(scene) ==
    /\ drawables = scene
    /\ pc = "idle"
    /\ pending = {}
    /\ isUpdated = <<>>
    /\ traits = <<>>
    /\ visibleGeometries_ = ClearedVector
    /\ visibleLightsTemp_ = ClearedVector
    /\ threadedGeometryUpdates_ = ClearedVector
    /\ nonThreadedGeometryUpdates_ = ClearedVector
    /\ passBatches = {}
    /\ visibleLights_ = <<>>
    /\ cachedSceneLights_ = <<>>
    /\ shadowCastersToBeUpdated_ = EmptyBag
    /\ shadowPass_ = TRUE
    /\ mainLightIndex_ = M_MAX_UNSIGNED
    /\ accLight = 1
    /\ drawableLighting_ = <<>>
    /\ maxPixelLights_ = 1
    /\ lightVolumeBatches_ = <<>>
    /\ batchesUpdated = <<>>
    /\ zoneQueries = <<>>
    /\ cachedZone = [d \in 1..Len(scene) |-> scene[d].cachedZone]
    /\ pipelineStateHashDirty = [d \in 1..Len(scene) |-> FALSE]
    /\ zoneTouches = <<>>
    /\ sceneLightsCreated = <<>>
    /\ beginFrameCalls = 0
    /\ sourceBatchCalls = <<>>
    /\ zRange = <<>>
    /\ sceneZRange_ = ClearedZRange
    /\ NoCallsMade(scene)

\* Scenes that differ in what the visibility phase reads.
Init ==
    \E n \in 1..MaxVisDrawables :
        \E scene \in [1..n -> VisTemplates] : Constructed(scene)

\* The order in which the work items of the visibility phase ran.
Orders(n) == { o \in [1..n -> 1..n] : \A i, j \in 1..n : o[i] = o[j] => i = j }

\* The containers of ProcessVisibleDrawablesForThread as BeginFrame leaves
\* them in the first frame of a scene.
ClearedFor(scene) ==
    [ isUpdated |-> [d \in 1..Len(scene) |-> FALSE],
      traits |-> [d \in 1..Len(scene) |-> {}],
      visibleGeometries_ |-> ClearedVector,
      visibleLightsTemp_ |-> ClearedVector,
      threadedGeometryUpdates_ |-> ClearedVector,
      nonThreadedGeometryUpdates_ |-> ClearedVector,
      passBatches |-> {},
      drawableLighting_ |-> [d \in 1..Len(scene) |-> <<>>],
      batchesUpdated |-> [d \in 1..Len(scene) |-> 0],
      zoneQueries |-> [d \in 1..Len(scene) |-> 0],
      cachedZone |-> [d \in 1..Len(scene) |-> scene[d].cachedZone],
      pipelineStateHashDirty |-> [d \in 1..Len(scene) |-> FALSE],
      zoneTouches |-> [d \in 1..Len(scene) |-> <<>>],
      sourceBatchCalls |-> [d \in 1..Len(scene) |-> <<>>],
      zRange |-> [d \in 1..Len(scene) |-> EmptyZRange],
      sceneZRange_ |-> ClearedZRange ]

\* The work items of the visibility phase run one after another in the
\* order given, from index i on, all by the invoking thread.
RECURSIVE VisitInOrder(_, _, _)
VisitInOrder(c, order, i) ==
    IF i > Len(order) THEN c
    ELSE IF order[i] \in VisibleDrawables(drawables)
         THEN VisitInOrder(
                ProcessVisibleDrawablesForThread(c, 1, SpanOf(order[i], {})),
                order, i + 1)
         ELSE VisitInOrder(c, order, i + 1)

\* The order of the drawable indices.
IndexOrder(n) == [i \in 1..n |-> i]

\* The collector when ProcessVisibleDrawables has returned in the first
\* frame of a scene, with or without a shadow pass.
AfterVisibilityWith(scene, order, shadowPass) ==
    /\ drawables = scene
    /\ pc = "visible"
    /\ pending = {}
    /\ \E c \in {VisitInOrder(ClearedFor(scene), order, 1)} :
       \E lights \in {Elements(c.visibleLightsTemp_)} :
       \E cached \in {CacheSceneLights(lights, 1,
                        [cache |-> <<>>, created |-> <<>>])} :
           /\ isUpdated = c.isUpdated
           /\ traits = c.traits
           /\ visibleGeometries_ = c.visibleGeometries_
           /\ visibleLightsTemp_ = c.visibleLightsTemp_
           /\ threadedGeometryUpdates_ = c.threadedGeometryUpdates_
           /\ nonThreadedGeometryUpdates_ = c.nonThreadedGeometryUpdates_
           /\ passBatches = c.passBatches
           /\ drawableLighting_ = c.drawableLighting_
           /\ batchesUpdated = c.batchesUpdated
           /\ zoneQueries = c.zoneQueries
           /\ cachedZone = c.cachedZone
           /\ pipelineStateHashDirty = c.pipelineStateHashDirty
           /\ zoneTouches = c.zoneTouches
           /\ sourceBatchCalls = c.sourceBatchCalls
           /\ zRange = c.zRange
           /\ sceneZRange_ = c.sceneZRange_
           /\ visibleLights_ = lights
           /\ cachedSceneLights_ = cached.cache
           /\ sceneLightsCreated = cached.created
    /\ shadowCastersToBeUpdated_ = EmptyBag
    /\ shadowPass_ = shadowPass
    /\ mainLightIndex_ = M_MAX_UNSIGNED
    /\ accLight = 1
    /\ maxPixelLights_ = 1
    /\ lightVolumeBatches_ = <<>>
    /\ beginFrameCalls = 0
    /\ NoCallsMade(scene)

\* The same, of a collector that was given a shadow pass.
AfterVisibility(scene, order) == AfterVisibilityWith(scene, order, TRUE)

\* The scenes of the shadow map sort behind a geometry outside the view.
OffscreenScenesOf(n) ==
    { <<OffscreenGeometry>> \o s : s \in ScenesOf(n - 1, SortFamilyLights) }

\* The orders in which the work items of a scene ran that differ in what
\* light processing reads: the geometries by their index, the lights in any
\* order.
LightOrders(scene) ==
    { o \in Orders(Len(scene)) :
        \A i, j \in 1..Len(scene) :
            (i < j /\ IsGeometry(scene[o[i]]) /\ IsGeometry(scene[o[j]]))
                => o[i] < o[j] }

\* Scenes that differ in what light processing reads, when
\* ProcessVisibleDrawables has returned.
InitLights ==
    \E n \in 1..MaxLitDrawables :
        \E scene \in ScenesOf(n, MainFamilyLights) \cup ScenesOf(n, SortFamilyLights)
                        \cup OffscreenScenesOf(n) :
            \E order \in LightOrders(scene) : AfterVisibility(scene, order)

\* One geometry, one directional and one point light whose intensity
\* divisors differ, in any order of the drawable indices.
FrameScenes ==
    { s \in [1..3 -> {LitGeometry} \cup
                { LightOf(0, 5, "WHITE", 1, t, d, c, IF c THEN <<1, 1>> ELSE ZERO) :
                    t \in LightTypes, d \in IntensityDivisors, c \in BOOLEAN }] :
        /\ \E i \in 1..3 : s[i] = LitGeometry
        /\ \E i \in 1..3 : s[i].lightType = "LIGHT_DIRECTIONAL"
        /\ \E i \in 1..3 : s[i].lightType = "LIGHT_POINT"
        /\ \A i, j \in 1..3 :
              (i # j /\ IsLight(s[i]) /\ IsLight(s[j]))
                  => s[i].intensityDivisor # s[j].intensityDivisor }

\* The same, alone or with a geometry outside the view.
InitFrame ==
    \E scene \in FrameScenes :
        \/ Constructed(scene)
        \/ Constructed(Append(scene, OffscreenGeometry))

\* (center, edge) of world bounding boxes: the last is an "infinite" one.
ZCases == { <<0, 1>>, <<2, 2>>, <<0, M_LARGE_VALUE>> }
UpdateGeometryTypes ==
    {"UPDATE_NONE", "UPDATE_MAIN_THREAD", "UPDATE_WORKER_THREAD"}
\* Source batches that differ in their technique and in what a pass reports.
BatchCases ==
    { <<>>, <<UnlitBatch>>, <<NoTechniqueBatch>>, <<NoTechniqueBatch, LitBatch>>,
      <<UnlitBatch, NoTechniqueBatch, LitBatch>> }

\* Drawables that differ in what the geometry branch reads, a geometry
\* beyond its draw distance and a light.
GeometryTemplates ==
    { GeometryOf(0, 5, batches) : batches \in BatchCases }
    \cup { [ GeometryOf(0, 5, <<LitBatch>>) EXCEPT
               !.center = z[1], !.edge = z[2] ] : z \in ZCases }
    \cup { [ GeometryOf(0, 5, <<LitBatch>>) EXCEPT
               !.updateGeometryType = type ] : type \in UpdateGeometryTypes }
    \cup { [ GeometryOf(10, 15, <<LitBatch>>) EXCEPT
               !.center = 5, !.edge = 3 ] }
    \cup { [ LightOf(0, 5, "WHITE", 1, "LIGHT_POINT", 1, FALSE, ZERO) EXCEPT
               !.center = 0 - 4 ] }

InitVisibility ==
    \E n \in 1..MaxGeometries :
        \E scene \in [1..n -> GeometryTemplates] : Constructed(scene)

\* The steps up to the return of ProcessVisibleDrawables.
NextVisibility ==
    \/ BeginFrame
    \/ ProcessVisibleDrawables_Begin
    \/ \E t \in Threads : \E d \in DrawableIndices :
          ProcessVisibleDrawables_Task(t, d)
    \/ ProcessVisibleDrawables_End

\* The visibility phase over the geometries.
SpecVisibility == InitVisibility /\ [][NextVisibility]_vars

Next ==
    \/ BeginFrame
    \/ ProcessVisibleDrawables_Begin
    \/ \E t \in Threads : \E d \in DrawableIndices :
          ProcessVisibleDrawables_Task(t, d)
    \/ ProcessVisibleDrawables_End
    \/ ProcessVisibleLights_Begin
    \/ \E i \in 1..Len(visibleLights_) : ProcessVisibleLights_LitGeometries(i)
    \/ ProcessVisibleLights_Sort
    \/ \E t \in Threads : \E item \in pending :
          ProcessVisibleLights_ShadowCaster(t, item)
    \/ ProcessVisibleLights_ShadowBatches
    \/ \E item \in pending : ProcessVisibleLights_CollectShadowBatches(item)
    \/ ProcessVisibleLights_FindMainLight
    \/ \E g \in DrawableIndices : AccumulateForwardLighting_Task(g)
    \/ AccumulateForwardLighting_End

\* The steps of ProcessVisibleLights.
NextLights ==
    \/ ProcessVisibleLights_Begin
    \/ \E i \in 1..Len(visibleLights_) : ProcessVisibleLights_LitGeometries(i)
    \/ ProcessVisibleLights_Sort
    \/ \E t \in Threads : \E item \in pending :
          ProcessVisibleLights_ShadowCaster(t, item)
    \/ ProcessVisibleLights_ShadowBatches
    \/ \E item \in pending : ProcessVisibleLights_CollectShadowBatches(item)
    \/ ProcessVisibleLights_FindMainLight
    \/ \E g \in DrawableIndices : AccumulateForwardLighting_Task(g)
    \/ AccumulateForwardLighting_End

\* Frames of the scenes of the visibility family.
Spec == Init /\ [][Next]_vars

\* ProcessVisibleLights on the scenes of the lighting family.
SpecLights == InitLights /\ [][NextLights]_vars

\* Frames of the scenes with one geometry, one directional and one point light.
SpecFrame == InitFrame /\ [][Next]_vars

\* Geometries whose cached zone stays valid (hit), is at its invalidation
\* distance (boundary) or is invalid (beyond), inside and outside the view;
\* the boundary ones ask for an update from the main thread.
ZoneCases == { <<1, "UPDATE_WORKER_THREAD">>, <<2, "UPDATE_MAIN_THREAD">>,
               <<3, "UPDATE_WORKER_THREAD">> }

CasterGeometries ==
    { [ GeometryOf(0, 5, <<LitBatch>>) EXCEPT
          !.center = z[1], !.updateGeometryType = z[2], !.inDrawables = v ] :
        z \in ZoneCases, v \in BOOLEAN }
    \cup { [ GeometryOf(10, 15, <<LitBatch>>) EXCEPT !.center = 3 ] }

\* A point light that casts shadows, with two shadow splits.
CasterLight ==
    [ LightOf(0, 5, "WHITE", 1, "LIGHT_POINT", 1, TRUE, <<1, 1>>)
        EXCEPT !.numSplits = 2 ]

\* Geometries followed by shadow casting lights, at least one of each.
CasterScenes(n) ==
    { s \in [1..n -> CasterGeometries \cup {CasterLight}] :
        /\ IsGeometry(s[1])
        /\ IsLight(s[n])
        /\ \A i \in 1..(n - 1) : IsLight(s[i]) => IsLight(s[i + 1]) }

\* The scenes of shadow casters when ProcessVisibleDrawables has returned.
InitCasters ==
    \E n \in 2..MaxCasterDrawables :
        \E scene \in CasterScenes(n) :
            \E shadowPass \in BOOLEAN :
                AfterVisibilityWith(scene, IndexOrder(n), shadowPass)

\* Light processing of the scenes of shadow casters.
SpecCasters == InitCasters /\ [][NextLights]_vars

\* A visible light of the accumulation family.
AccumulatedLight(lightType) ==
    LightOf(0, 5, "WHITE", 1, lightType, 1, FALSE, ZERO)

\* One geometry lit by n lights; the light of index 2 may be directional and
\* is then the main light, the last in the sorted array of visible lights.
AccumulateScene(n, lightType) ==
    [ d \in 1..(n + 1) |->
        IF d = 1 THEN LitGeometry
        ELSE IF d = 2 THEN AccumulatedLight(lightType)
        ELSE AccumulatedLight("LIGHT_POINT") ]

\* Values given to SetMaxPixelLights: the default and one above MaxPixelLights.
PixelLightBudgets == {1, MaxPixelLights + 1}

\* The collector when ProcessVisibleLights has found the main light and
\* starts AccumulateForwardLighting: every light lights the geometry.
BeforeAccumulation(scene, maxPixelLights) ==
    /\ drawables = scene
    /\ pc = "accumulate"
    /\ \E c \in {VisitInOrder(ClearedFor(scene), IndexOrder(Len(scene)), 1)} :
       \E lights \in {Elements(c.visibleLightsTemp_)} :
       \E cached \in {CacheSceneLights(lights, 1,
                        [cache |-> <<>>, created |-> <<>>])} :
       \E cache \in {[ d \in DOMAIN cached.cache |->
                        FinalizeShadowMap(
                            [ cached.cache[d] EXCEPT
                                !.litGeometries =
                                    Range(Elements(c.visibleGeometries_)) ]) ]} :
           /\ isUpdated = c.isUpdated
           /\ traits = c.traits
           /\ visibleGeometries_ = c.visibleGeometries_
           /\ visibleLightsTemp_ = c.visibleLightsTemp_
           /\ threadedGeometryUpdates_ = c.threadedGeometryUpdates_
           /\ nonThreadedGeometryUpdates_ = c.nonThreadedGeometryUpdates_
           /\ passBatches = c.passBatches
           /\ drawableLighting_ = c.drawableLighting_
           /\ batchesUpdated = c.batchesUpdated
           /\ zoneQueries = c.zoneQueries
           /\ cachedZone = c.cachedZone
           /\ pipelineStateHashDirty = c.pipelineStateHashDirty
           /\ zoneTouches = c.zoneTouches
           /\ sourceBatchCalls = c.sourceBatchCalls
           /\ zRange = c.zRange
           /\ sceneZRange_ = c.sceneZRange_
           /\ cachedSceneLights_ = cache
           /\ sceneLightsCreated = cached.created
           /\ visibleLights_ = SortLights(cachedSceneLights_, <<>>, lights)
    /\ \E calls \in {AssignShadowMaps(cachedSceneLights_, visibleLights_, 1,
                        [requests |-> <<>>, finalized |-> <<>>])} :
           /\ shadowMapRequests = calls.requests
           /\ shaderParametersFinalized = calls.finalized
    /\ shadowBatchesCollected = EmptyBag
    /\ shadowBatchesFinalized = 1
    /\ hasShadowCalls = HasShadowCalls(TRUE, Elements(visibleLightsTemp_))
    /\ sceneBatchCalls = <<>>
    /\ lightVolumeCalls = 0
    /\ RmlUnused
    /\ accumulatedLights = [d \in 1..Len(scene) |-> <<>>]
    /\ mainLightIndex_ = FindMainLight(visibleLights_)
    /\ accLight = 1
    /\ pending = LitGeometriesAt(visibleLights_, 1)
    /\ shadowCastersToBeUpdated_ = EmptyBag
    /\ shadowPass_ = TRUE
    /\ maxPixelLights_ = maxPixelLights
    /\ lightVolumeBatches_ = <<>>
    /\ beginFrameCalls = 0

InitAccumulate ==
    \E n \in 1..MaxAccLights : \E lightType \in LightTypes :
        \E maxPixelLights \in PixelLightBudgets :
            BeforeAccumulation(AccumulateScene(n, lightType), maxPixelLights)

NextAccumulate ==
    \/ \E d \in pending : AccumulateForwardLighting_Task(d)
    \/ AccumulateForwardLighting_End

\* AccumulateForwardLighting over up to MaxAccLights lights of one geometry.
SpecAccumulate == InitAccumulate /\ [][NextAccumulate]_vars

\* Geometries lit by every light of the scene, the lights of every type and
\* intensity divisor.
InitPenalty ==
    \E n \in 2..MaxPenaltyDrawables :
        \E scene \in { s \in ScenesOf(n, MainFamilyLights) :
                          IsGeometry(s[1]) /\ IsLight(s[n]) } :
            BeforeAccumulation(scene, MaxPixelLights)

NextPenalty ==
    \/ \E g \in pending :
          AccumulateForwardLighting_TaskAt(g, {0 - 3, 0, 1, 3})
    \/ AccumulateForwardLighting_End

\* AccumulateForwardLighting at every distance Light::GetDistanceTo may
\* return.
SpecPenalty == InitPenalty /\ [][NextPenalty]_vars

\* A geometry, a directional light that casts shadows and a geometry outside
\* the view.
FrameSceneOf(n) ==
    [ d \in 1..n |->
        IF d = 1 THEN LitGeometry
        ELSE IF d = 2
             THEN LightOf(0, 5, "WHITE", 1, "LIGHT_DIRECTIONAL", 1, TRUE, <<1, 1>>)
             ELSE OffscreenGeometry ]

InitFrames == \E n \in 1..MaxFrameDrawables : Constructed(FrameSceneOf(n))

NextFrames ==
    \/ Next
    \/ CollectLightVolumeBatches
    \/ UpdateScene

\* Frames of a scene that changes between them.
SpecFrames == InitFrames /\ [][NextFrames]_vars

\* The steps of a frame up to the return of CollectSceneBatches.
NextCollect ==
    \/ Next
    \/ CollectSceneBatches

\* Frames that end with CollectSceneBatches.
SpecCollect == InitFrames /\ [][NextCollect]_vars

\* The same frames under fair scheduling. The caller calls BeginFrame,
\* ProcessVisibleDrawables, ProcessVisibleLights and CollectSceneBatches one
\* after the other and goes on behind a barrier that is open (the first
\* condition); the work queue runs every work item it was given (the others).
SpecCollectFair ==
    /\ SpecCollect
    /\ WF_vars(\/ BeginFrame
               \/ ProcessVisibleDrawables_Begin
               \/ ProcessVisibleDrawables_End
               \/ ProcessVisibleLights_Begin
               \/ ProcessVisibleLights_Sort
               \/ ProcessVisibleLights_ShadowBatches
               \/ ProcessVisibleLights_FindMainLight
               \/ AccumulateForwardLighting_End
               \/ CollectSceneBatches)
    /\ WF_vars(\E t \in Threads : \E d \in DrawableIndices :
                  ProcessVisibleDrawables_Task(t, d))
    /\ WF_vars(\E i \in 1..Len(visibleLights_) :
                  ProcessVisibleLights_LitGeometries(i))
    /\ WF_vars(\E t \in Threads : \E item \in pending :
                  ProcessVisibleLights_ShadowCaster(t, item))
    /\ WF_vars(\E item \in pending :
                  ProcessVisibleLights_CollectShadowBatches(item))
    /\ WF_vars(\E g \in DrawableIndices : AccumulateForwardLighting_Task(g))

\* A geometry, a directional light that casts shadows and point lights.
InitViews ==
    \E n \in 2..MaxViewDrawables :
        Constructed(
            [ d \in 1..n |->
                IF d = 1 THEN LitGeometry
                ELSE IF d = 2
                     THEN LightOf(0, 5, "WHITE", 1, "LIGHT_DIRECTIONAL", 1,
                                  TRUE, <<1, 1>>)
                     ELSE LightOf(0, 5, "WHITE", 1, "LIGHT_POINT", 1,
                                  FALSE, ZERO) ])

NextViews ==
    \/ Next
    \/ CollectLightVolumeBatches
    \/ UpdateView

\* Frames of a scene of which each frame sees another part.
SpecViews == InitViews /\ [][NextViews]_vars

NextTwice ==
    \/ Next
    \/ ProcessVisibleDrawables_Again

\* Frames in which ProcessVisibleDrawables is called up to
\* MaxVisibilityCalls times.
SpecTwice == InitFrames /\ [][NextTwice]_vars

\* ------------------------------------------------------------- properties

InVisibleGeometries(d) == d \in Range(Elements(visibleGeometries_))
InVisibleLights(d) == d \in Range(visibleLights_)
InGeometryUpdates(d) ==
    \/ d \in Range(Elements(threadedGeometryUpdates_))
    \/ d \in Range(Elements(nonThreadedGeometryUpdates_))
OfferedToSomePass(d) == \E b \in passBatches : b.drawable = d

\* ProcessVisibleDrawables has returned in this frame.
VisibilityDone == pc \notin {"idle", "begun", "visibility"}
\* The visible lights are sorted in this frame.
SortDone == pc \in {"shadowCasters", "shadowBatches", "accumulate", "lit"}
\* FindMainLight has run in this frame.
MainLightFound == pc \in {"accumulate", "lit"}

\* The drawable is beyond its positive draw distance.
BeyondDrawDistance(d) ==
    /\ drawables[d].drawDistance > 0
    /\ drawables[d].distance > drawables[d].drawDistance

HasFlag(d, flag) == flag \in drawables[d].flags

\* C1: after ProcessVisibleDrawables no drawable is both in the visible
\* geometry list and in the visible light list, and a drawable beyond its
\* draw distance is in neither.
C1_GeometryOrLightNeverBoth ==
    VisibilityDone =>
        \A d \in DrawableIndices :
            /\ ~(InVisibleGeometries(d) /\ InVisibleLights(d))
            /\ BeyondDrawDistance(d) =>
                  (~InVisibleGeometries(d) /\ ~InVisibleLights(d))

\* A drawable with both flags is a visible geometry of a frame that also
\* culled a drawable.
C1_Witness ==
    /\ pc = "visible"
    /\ \E d \in DrawableIndices :
          /\ HasFlag(d, "DRAWABLE_LIGHT")
          /\ InVisibleGeometries(d)
    /\ \E d \in DrawableIndices : BeyondDrawDistance(d) /\ isUpdated[d]

\* C2: after ProcessVisibleDrawables no visible light has a black effective
\* color or an effective light mask of 0.
C2_NoBlackOrMaskedLight ==
    VisibilityDone =>
        \A i \in 1..Len(visibleLights_) :
            /\ drawables[visibleLights_[i]].effectiveColor # "BLACK"
            /\ drawables[visibleLights_[i]].lightMaskEffective # 0

\* A white light with mask 0 was processed within its draw distance, and the
\* frame has a visible light.
C2_Witness ==
    /\ pc = "visible"
    /\ visibleLights_ # <<>>
    /\ \E d \in DrawableIndices :
          /\ HasFlag(d, "DRAWABLE_LIGHT") /\ ~HasFlag(d, "DRAWABLE_GEOMETRY")
          /\ isUpdated[d] /\ ~BeyondDrawDistance(d)
          /\ drawables[d].effectiveColor = "WHITE"
          /\ drawables[d].lightMaskEffective = 0

\* C3: of the drawables passed to ProcessVisibleDrawables, a geometry is
\* missing from the visible geometries, and a light that is neither black
\* nor masked from the visible lights, exactly when its draw distance is
\* positive and its distance is greater.
C3_CulledExactlyBeyondDrawDistance ==
    VisibilityDone =>
        \A d \in VisibleDrawables(drawables) :
            /\ HasFlag(d, "DRAWABLE_GEOMETRY") =>
                  (~InVisibleGeometries(d) <=> BeyondDrawDistance(d))
            /\ ( /\ HasFlag(d, "DRAWABLE_LIGHT")
                 /\ ~HasFlag(d, "DRAWABLE_GEOMETRY")
                 /\ drawables[d].effectiveColor # "BLACK"
                 /\ drawables[d].lightMaskEffective # 0 ) =>
                  (~InVisibleLights(d) <=> BeyondDrawDistance(d))

\* A geometry at exactly its draw distance and a geometry with a negative
\* draw distance are both visible.
C3_Witness ==
    /\ pc = "visible"
    /\ \E d \in DrawableIndices :
          /\ drawables[d].drawDistance > 0
          /\ drawables[d].distance = drawables[d].drawDistance
          /\ InVisibleGeometries(d)
    /\ \E d \in DrawableIndices :
          /\ drawables[d].drawDistance < 0
          /\ drawables[d].distance > 0
          /\ InVisibleGeometries(d)

\* C4: a drawable beyond its draw distance is no visible geometry and no
\* batch of it is offered to a pass, and ProcessVisibleDrawables queues no
\* geometry update for it; when ProcessVisibleDrawables returns, every
\* drawable of the input was processed: a geometry within its draw distance
\* is visible and its batches were offered.
C4_CulledHasNoEffect ==
    /\ \A d \in DrawableIndices :
          BeyondDrawDistance(d) =>
              /\ ~InVisibleGeometries(d)
              /\ ~OfferedToSomePass(d)
              /\ pc \in {"visibility", "visible"} => ~InGeometryUpdates(d)
    /\ pc = "visible" =>
          \A d \in VisibleDrawables(drawables) :
              /\ isUpdated[d]
              /\ (HasFlag(d, "DRAWABLE_GEOMETRY") /\ ~BeyondDrawDistance(d)) =>
                    /\ InVisibleGeometries(d)
                    /\ InGeometryUpdates(d)
                    /\ OfferedToSomePass(d)

\* A frame culled one geometry and made another one visible.
C4_Witness ==
    /\ pc = "visible"
    /\ \E d, e \in DrawableIndices :
          /\ HasFlag(d, "DRAWABLE_GEOMETRY") /\ BeyondDrawDistance(d)
          /\ drawables[d].drawDistance = 10 /\ drawables[d].distance = 15
          /\ isUpdated[d]
          /\ e # d /\ InVisibleGeometries(e) /\ OfferedToSomePass(e)

\* The shadow map footprint of the light at index i: the square of
\* IntVector2::Length() of its shadow map size.
Footprint(i) == LengthSquared(SceneLightAt(i).shadowMapSize)

\* C5: in the sorted visible lights a light with a larger footprint comes
\* before a light with a smaller one, and of two lights with equal
\* footprints the one with the higher identifier comes first.
C5_SortedByFootprintThenID ==
    SortDone =>
        \A i, j \in 1..Len(visibleLights_) :
            i < j =>
                /\ Footprint(i) >= Footprint(j)
                /\ Footprint(i) = Footprint(j) =>
                      LightID(visibleLights_[i]) > LightID(visibleLights_[j])

AppendOrders(seq) ==
    { [i \in 1..Len(seq) |-> seq[o[i]]] : o \in Orders(Len(seq)) }

\* C6: the sorted visible lights are the same for every order in which the
\* same lights could have been appended.
C6_SortIndependentOfInsertionOrder ==
    SortDone =>
        \A appended \in AppendOrders(visibleLights_) :
            SortLights(cachedSceneLights_, <<>>, appended) = visibleLights_

DirectionalIndices ==
    { i \in 1..Len(visibleLights_) : LightAt(i).lightType = "LIGHT_DIRECTIONAL" }

BestDirectionalIndices ==
    { i \in DirectionalIndices :
        \A j \in DirectionalIndices :
            LightAt(i).intensityDivisor >= LightAt(j).intensityDivisor }

\* C8: the main light is the first of the directional lights that share the
\* best score, and never a light that is not directional.
C8_FirstOfBestDirectional ==
    MainLightFound =>
        /\ BestDirectionalIndices # {} =>
              /\ mainLightIndex_ \in BestDirectionalIndices
              /\ \A j \in BestDirectionalIndices : mainLightIndex_ <= j
        /\ mainLightIndex_ # M_MAX_UNSIGNED =>
              LightAt(mainLightIndex_).lightType = "LIGHT_DIRECTIONAL"

\* Two directional lights share the best score and a point light has a
\* higher intensity divisor than both.
C8_Witness ==
    /\ pc = "lit"
    /\ Cardinality(BestDirectionalIndices) >= 2
    /\ \E i \in 1..Len(visibleLights_) :
          /\ LightAt(i).lightType = "LIGHT_POINT"
          /\ LightAt(i).intensityDivisor
                > LightAt(mainLightIndex_).intensityDivisor

\* C9: after ProcessVisibleLights the main light is the first entry of the
\* accumulator of every geometry it lights.
C9_MainLightInSlotZero ==
    (pc = "lit" /\ mainLightIndex_ # M_MAX_UNSIGNED) =>
        \A g \in SceneLightAt(mainLightIndex_).litGeometries :
            /\ drawableLighting_[g] # <<>>
            /\ drawableLighting_[g][1].lightIndex = mainLightIndex_

\* A geometry of the main light holds a light that was accumulated before
\* the main light and is as near as a light can be.
C9_Witness ==
    /\ pc = "lit"
    /\ mainLightIndex_ # M_MAX_UNSIGNED
    /\ \E g \in SceneLightAt(mainLightIndex_).litGeometries :
          \E k \in 2..Len(drawableLighting_[g]) :
              /\ drawableLighting_[g][k].lightIndex < mainLightIndex_
              /\ drawableLighting_[g][k].penalty.num = 1

\* The indices of a directional light of divisor 1 and a point light of
\* divisor 2 that both light the geometry g.
ScenarioLights(g) ==
    { p \in (1..Len(visibleLights_)) \X (1..Len(visibleLights_)) :
        /\ LightAt(p[1]).lightType = "LIGHT_DIRECTIONAL"
        /\ LightAt(p[1]).intensityDivisor = 1
        /\ LightAt(p[1]).effectiveColor = "WHITE"
        /\ LightAt(p[2]).lightType = "LIGHT_POINT"
        /\ LightAt(p[2]).intensityDivisor = 2
        /\ LightAt(p[2]).effectiveColor = "WHITE"
        /\ g \in SceneLightAt(p[1]).litGeometries
        /\ g \in SceneLightAt(p[2]).litGeometries }

\* C10: after a frame with a white directional light of divisor 1 and a
\* white point light of divisor 2 that both light one geometry, the
\* accumulator of the geometry holds the directional light first and the
\* point light second.
C10_DirectionalThenPoint ==
    pc = "lit" =>
        \A g \in DrawableIndices :
            \A p \in ScenarioLights(g) :
                /\ Len(drawableLighting_[g]) = 2
                /\ drawableLighting_[g][1].lightIndex = p[1]
                /\ drawableLighting_[g][2].lightIndex = p[2]

\* The frame of the scenario has ended, the point light at distance 0.
C10_Witness ==
    /\ pc = "lit"
    /\ \E g \in DrawableIndices :
          /\ ScenarioLights(g) # {}
          /\ drawableLighting_[g][2].penalty.num = 1


\* The drawables whose zone step has run when the shadow casters are updated:
\* the visible geometries and the shadow casters to be updated.
ZoneChecked ==
    Range(Elements(visibleGeometries_)) \cup BagToSet(shadowCastersToBeUpdated_)

\* The squared distance of the center of drawable d from the sample point
\* of the zone it had cached when the frame began.
CacheDistanceSquared(d) ==
    (drawables[d].cachedZone.cachePosition_ - drawables[d].center)
        * (drawables[d].cachedZone.cachePosition_ - drawables[d].center)

\* No zone query for drawable d in this frame: the cached zone and the
\* dirty flag are those of the beginning of the frame.
ZoneKept(d) ==
    /\ zoneQueries[d] = 0
    /\ cachedZone[d] = drawables[d].cachedZone
    /\ ~pipelineStateHashDirty[d]

\* One zone query for drawable d in this frame, which marked the pipeline
\* state hash dirty.
ZoneQueriedOnce(d) ==
    /\ zoneQueries[d] = 1
    /\ pipelineStateHashDirty[d]

BeginFrameTwiceOnEmptyScene ==
    /\ pc = "begun"
    /\ beginFrameCalls = 2
    /\ NumDrawables = 0

\* C12: after BeginFrame has been called twice in succession on a scene
\* without drawables, also after a complete frame with visible geometries
\* and lights, the visible geometries, the visible lights, the geometry
\* update queues and the light volume batches are empty, there is no main
\* light, and every per-drawable container has the size of the scene.
C12_BeginFrameTwiceLeavesNothing ==
    BeginFrameTwiceOnEmptyScene =>
        /\ Elements(visibleGeometries_) = <<>>
        /\ visibleLights_ = <<>>
        /\ mainLightIndex_ = M_MAX_UNSIGNED
        /\ Elements(threadedGeometryUpdates_) = <<>>
        /\ Elements(nonThreadedGeometryUpdates_) = <<>>
        /\ lightVolumeBatches_ = <<>>
        /\ DOMAIN isUpdated = DrawableIndices
        /\ DOMAIN traits = DrawableIndices
        /\ DOMAIN drawableLighting_ = DrawableIndices


\* The per-vertex slots of drawable d that hold a light.
VertexSlotsInUse(d) ==
    { i \in 1..MaxVertexLights : GetVertexLightIndices(d)[i] # M_MAX_UNSIGNED }

\* The lights the accumulator of drawable d holds outside its per-vertex
\* slots: its per-pixel lights.
NumPixelLights(d) ==
    Len(drawableLighting_[d]) - Cardinality(VertexSlotsInUse(d))

RemoveAt(seq, k) == SubSeq(seq, 1, k - 1) \o SubSeq(seq, k + 1, Len(seq))

\* a < b for two penalties, as fractions of positive denominators; the only
\* negative penalty is the one of the main light.
StrictlyLowerPenalty(a, b) ==
    \/ a.num < 0 /\ b.num >= 0
    \/ a.num >= 0 /\ b.num >= 0 /\ a.num * b.den < b.num * a.den

\* The step accumulates the light of index accLight for the geometry g.
AccumulatesFor(g) ==
    /\ pc = "accumulate"
    /\ pc' = "accumulate"
    /\ accLight' = accLight
    /\ g \in pending
    /\ g \notin pending'

\* The accumulator of g was full, and the step either left it as it was or
\* put the new light in the place of its last, worst entry: the new entry
\* has a strictly lower penalty than that entry, and the other entries are
\* kept in their order.
EvictsWorstOrKeeps(g) ==
    LET old == drawableLighting_[g]
        new == drawableLighting_'[g]
        worst == old[Len(old)]
    IN  \/ new = old
        \/ \E k \in 1..Len(new) :
              /\ new[k].lightIndex = accLight
              /\ StrictlyLowerPenalty(new[k].penalty, worst.penalty)
              /\ RemoveAt(new, k) = SubSeq(old, 1, Len(old) - 1)

C15_VertexLightsByIndex ==
    \A d \in DOMAIN drawableLighting_ :
        /\ DOMAIN GetVertexLights(d) = 1..MaxVertexLights
        /\ \A i \in 1..MaxVertexLights :
              LET index == GetVertexLightIndices(d)[i]
              IN  /\ GetVertexLights(d)[i] = nullptr <=> index = M_MAX_UNSIGNED
                  /\ index # M_MAX_UNSIGNED =>
                        /\ index \in 1..Len(visibleLights_)
                        /\ GetVertexLights(d)[i] = visibleLights_[index]

\* A drawable has a vertex light in a slot other than the one of its index
\* in the visible lights, and an unused vertex slot.
C15_Witness ==
    /\ pc = "lit"
    /\ \E d \in DOMAIN drawableLighting_ :
          /\ \E i \in 1..MaxVertexLights :
                /\ GetVertexLightIndices(d)[i] \notin {M_MAX_UNSIGNED, i}
                /\ GetVertexLights(d)[i] # nullptr
          /\ \E i \in 1..MaxVertexLights :
                /\ GetVertexLightIndices(d)[i] = M_MAX_UNSIGNED
                /\ GetVertexLights(d)[i] = nullptr


\* How often x is in the sequence.
Occurrences(seq, x) == Cardinality({ i \in 1..Len(seq) : seq[i] = x })

\* The shadow casters of the visible lights.
AllShadowCasters ==
    UNION { SceneLightAt(i).shadowCasters : i \in 1..Len(visibleLights_) }

\* C16: within a frame UpdateBatches and MarkInView are called at most once
\* for a drawable, and exactly once, when ProcessVisibleLights has updated
\* the shadow casters, for every drawable passed to ProcessVisibleDrawables
\* and every shadow caster of a visible light: a drawable refreshed as a
\* visible drawable is not refreshed again as a shadow caster.
C16_RefreshedOncePerFrame ==
    /\ \A d \in DrawableIndices : batchesUpdated[d] <= 1
    /\ pc \in {"shadowBatches", "accumulate", "lit"} =>
          \A d \in VisibleDrawables(drawables) \cup AllShadowCasters :
              batchesUpdated[d] = 1

\* A drawable passed to ProcessVisibleDrawables is also a shadow caster of a
\* visible light, another shadow caster is outside the view, and both were
\* refreshed.
C16_Witness ==
    /\ pc = "lit"
    /\ \E d \in VisibleDrawables(drawables) \cap AllShadowCasters :
          batchesUpdated[d] = 1
    /\ \E d \in AllShadowCasters \ VisibleDrawables(drawables) :
          batchesUpdated[d] = 1

\* C17: a drawable that ProcessVisibleDrawables meets a second time in a
\* frame, its updated flag set, is not processed again: it is refreshed at
\* most once and is at most once among the visible geometries, the visible
\* lights and the geometry updates.
C17_SecondProcessingRefused ==
    \A d \in DOMAIN batchesUpdated :
        /\ batchesUpdated[d] <= 1
        /\ Occurrences(Elements(visibleGeometries_), d) <= 1
        /\ Occurrences(Elements(visibleLightsTemp_), d) <= 1
        /\ Occurrences(UpdateGeometries, d) <= 1

\* The lights ProcessVisibleDrawables accepts in the frame.
AcceptedLights ==
    { d \in VisibleDrawables(drawables) :
        /\ IsLight(drawables[d])
        /\ ~BeyondDrawDistance(d)
        /\ drawables[d].effectiveColor # "BLACK"
        /\ drawables[d].lightMaskEffective # 0 }

\* C18: over the frames one SceneLight at most is made for a light, on the
\* first frame that accepts the light, and it is the one of every later
\* frame; when ProcessVisibleDrawables has returned, the visible lights
\* hold the SceneLight of every light accepted in the frame once and no
\* other.
C18_OneSceneLightPerLight ==
    /\ \A d \in DOMAIN sceneLightsCreated : sceneLightsCreated[d] <= 1
    /\ DOMAIN sceneLightsCreated = DOMAIN cachedSceneLights_
    /\ \A d \in DOMAIN cachedSceneLights_ : cachedSceneLights_[d].light = d
    /\ pc \in {"visible", "litGeometries", "shadowCasters", "shadowBatches",
              "accumulate", "lit"} =>
          /\ Range(visibleLights_) = AcceptedLights
          /\ \A d \in AcceptedLights :
                /\ Occurrences(visibleLights_, d) = 1
                /\ d \in DOMAIN cachedSceneLights_

\* ProcessVisibleDrawables has returned in a frame after one whose light
\* volume batches were collected, and the light is visible again.
C18_Witness ==
    /\ pc = "visible"
    /\ lightVolumeBatches_ # <<>>
    /\ visibleLights_ # <<>>
    /\ \A d \in Range(visibleLights_) : sceneLightsCreated[d] = 1

\* C19: when ProcessVisibleDrawables has returned, cachedSceneLights_ has no
\* entry of a light that is not in the scene any more.
C19_NoEntryOfDestroyedLight ==
    pc \in {"visible", "lit"} =>
        \A d \in DOMAIN cachedSceneLights_ :
            d \in DrawableIndices /\ IsLight(drawables[d])

\* C20: a drawable is at most once among the shadow casters to be updated,
\* also as a shadow caster of several lights, and at most once in the
\* threaded and the non-threaded geometry updates taken together, also when
\* it was queued as a visible geometry: UpdateGeometries calls its
\* UpdateGeometry at most once.
C20_UpdatedAndQueuedOnce ==
    \A d \in DrawableIndices :
        /\ CopiesIn(d, shadowCastersToBeUpdated_) <= 1
        /\ Occurrences(UpdateGeometries, d) <= 1

\* A geometry outside the view is a shadow caster of two lights and is
\* queued once.
C20_Witness ==
    /\ pc = "lit"
    /\ \E d \in DrawableIndices \ VisibleDrawables(drawables) :
          /\ Cardinality({ i \in 1..Len(visibleLights_) :
                            d \in SceneLightAt(i).shadowCasters }) = 2
          /\ Occurrences(UpdateGeometries, d) = 1

\* The AddSourceBatch calls made for the source batch k of the drawable d,
\* in the order they were made.
CallsOfBatch(d, k) ==
    LET IsOfBatch(call) == call.batch = k
    IN  SelectSeq(sourceBatchCalls[d], IsOfBatch)

\* One call per registered pass, in the order of registration.
OncePerPass(k) == [p \in 1..NumPasses |-> [batch |-> k, pass |-> p]]

\* C23: when ProcessVisibleDrawables has returned, a source batch of a
\* visible geometry whose material resolves no technique was offered to no
\* scene pass, and every other source batch of the geometry was offered to
\* every registered scene pass exactly once, in pass registration order.
C23_OfferedOncePerPassInOrder ==
    pc = "visible" =>
        \A d \in VisibleGeometrySet :
            \A k \in 1..Len(drawables[d].batches) :
                IF drawables[d].batches[k].hasTechnique
                THEN CallsOfBatch(d, k) = OncePerPass(k)
                ELSE CallsOfBatch(d, k) = <<>>

\* A visible geometry has a batch without a technique between two batches
\* with one, and the passes were offered the two.
C23_Witness ==
    /\ pc = "visible"
    /\ NumPasses > 1
    /\ \E d \in VisibleGeometrySet :
          /\ drawables[d].batches = <<UnlitBatch, NoTechniqueBatch, LitBatch>>
          /\ sourceBatchCalls[d] = OncePerPass(1) \o OncePerPass(3)

\* Some pass reported some source batch of d as lit.
ReportedLit(d) ==
    \E i \in 1..Len(sourceBatchCalls[d]) :
        drawables[d].batches[sourceBatchCalls[d][i].batch].isLit

\* C24: when ProcessVisibleDrawables has returned, a drawable has the
\* forward-lit trait exactly when it is a visible geometry and at least one
\* scene pass reported at least one of its source batches as lit: a culled
\* drawable, a light and a geometry without a lit report do not have it.
C24_ForwardLitIffReportedLit ==
    pc = "visible" =>
        \A d \in DrawableIndices :
            ("ForwardLit" \in traits[d])
                <=> (d \in VisibleGeometrySet /\ ReportedLit(d))

\* One visible geometry has the trait; another, whose only batch a pass
\* would report as lit, has no technique for it and no trait.
C24_Witness ==
    /\ pc = "visible"
    /\ \E d \in VisibleGeometrySet : "ForwardLit" \in traits[d]
    /\ \E d \in VisibleGeometrySet :
          /\ drawables[d].batches = <<NoTechniqueBatch>>
          /\ "ForwardLit" \notin traits[d]

\* The drawables of the vector given to ProcessVisibleDrawables that take the
\* geometry branch.
GeometriesInView ==
    { d \in VisibleDrawables(drawables) :
        IsGeometry(drawables[d]) /\ ~BeyondDrawDistance(d) }

\* The geometries in view with a bounding box that is not "infinite".
FiniteGeometries ==
    { d \in GeometriesInView : drawables[d].edge < M_LARGE_VALUE }

\* The view space depth of the near and the far end of the bounding box of d.
NearZ(d) ==
    ZRangeEvaluator.viewZ_ * drawables[d].center + ZRangeEvaluator.m23_
        - drawables[d].edge
FarZ(d) ==
    ZRangeEvaluator.viewZ_ * drawables[d].center + ZRangeEvaluator.m23_
        + drawables[d].edge

\* The scene Z range is the one of the finite geometries in view.
SceneZRangeOfFinite ==
    LET range == Get(sceneZRange_)
    IN  IF FiniteGeometries = {} THEN ~IsValid(range)
        ELSE /\ \E d \in FiniteGeometries : range.first = NearZ(d)
             /\ \A d \in FiniteGeometries : range.first <= NearZ(d)
             /\ \E d \in FiniteGeometries : range.second = FarZ(d)
             /\ \A d \in FiniteGeometries : range.second >= FarZ(d)

\* C25: when ProcessVisibleDrawables has returned, a geometry in view with
\* an "infinite" bounding box is a visible geometry, is queued for a geometry
\* update and its batches were offered to the passes; its stored Z range is
\* { M_LARGE_VALUE, M_LARGE_VALUE } and the scene Z range holds nothing of
\* it.
C25_InfiniteGeometryStillDrawn ==
    pc = "visible" =>
        /\ \A d \in GeometriesInView \ FiniteGeometries :
              /\ InVisibleGeometries(d)
              /\ InGeometryUpdates(d)
              /\ \A k \in 1..Len(drawables[d].batches) :
                    drawables[d].batches[k].hasTechnique
                        => CallsOfBatch(d, k) = OncePerPass(k)
              /\ zRange[d] = ZRangeOf(M_LARGE_VALUE, M_LARGE_VALUE)
        /\ SceneZRangeOfFinite

\* An "infinite" geometry is visible next to a finite one.
C25_Witness ==
    /\ pc = "visible"
    /\ \E d \in GeometriesInView \ FiniteGeometries :
          /\ InVisibleGeometries(d)
          /\ sourceBatchCalls[d] # <<>>
    /\ FiniteGeometries # {}

\* C26: the scene Z range handed to light processing is the least and the
\* greatest depth over the Z ranges of the visible geometries with a valid
\* Z range, whichever threads ran the work items in whichever order; culled
\* drawables and lights add nothing to it.
C26_SceneZRangeIsMinMax ==
    pc = "visible" =>
        /\ SceneZRangeOfFinite
        /\ \A d \in FiniteGeometries :
              zRange[d] = ZRangeOf(NearZ(d), FarZ(d))

\* Two threads each accumulated one geometry, the ranges of the two differ
\* and an "infinite" geometry, a culled one or a light was left out.
C26_Witness ==
    /\ pc = "visible"
    /\ \A t \in Threads : IsValid(sceneZRange_[t])
    /\ sceneZRange_[1] # sceneZRange_[2]
    /\ Get(sceneZRange_) = ZRangeOf(0 - 1, 4)

\* C27: when ProcessVisibleDrawables has returned, every visible geometry is
\* once in one of the two geometry update queues, the non-threaded one when
\* its update mode is UPDATE_MAIN_THREAD and the threaded one otherwise, and
\* no culled drawable and no light is in either.
C27_QueuedByUpdateMode ==
    pc = "visible" =>
        \A d \in DrawableIndices :
            LET threaded == Occurrences(Elements(threadedGeometryUpdates_), d)
                nonThreaded ==
                    Occurrences(Elements(nonThreadedGeometryUpdates_), d)
            IN  IF d \notin GeometriesInView
                THEN threaded = 0 /\ nonThreaded = 0
                ELSE IF drawables[d].updateGeometryType = "UPDATE_MAIN_THREAD"
                     THEN threaded = 0 /\ nonThreaded = 1
                     ELSE threaded = 1 /\ nonThreaded = 0

\* A geometry updated in the main thread and one with no update are queued,
\* next to a drawable that is not.
C27_Witness ==
    /\ pc = "visible"
    /\ \E d \in Range(Elements(nonThreadedGeometryUpdates_)) :
          drawables[d].updateGeometryType = "UPDATE_MAIN_THREAD"
    /\ \E d \in Range(Elements(threadedGeometryUpdates_)) :
          drawables[d].updateGeometryType = "UPDATE_NONE"

\* C22: in a frame the cached zone and the pipeline state hash of a drawable
\* are touched by at most one work item, hence one thread; its traits, its
\* Z range and the reset of its accumulator are written by at most one work
\* item of the visibility phase; and no light is accumulated twice into its
\* accumulator, so that no two work items of a parallel section write the
\* state of one drawable.
C22_OneWriterPerDrawable ==
    \A d \in DOMAIN zoneTouches :
        /\ Len(zoneTouches[d]) <= 1
        /\ Occurrences(Elements(visibleGeometries_), d) <= 1
        /\ \A i, j \in 1..Len(accumulatedLights[d]) :
              i < j => accumulatedLights[d][i] < accumulatedLights[d][j]

\* A visible geometry was touched by one thread and lit by two lights; a
\* shadow caster outside the view was touched by the other thread.
C22_Witness ==
    /\ pc = "lit"
    /\ \E d \in VisibleGeometrySet :
       \E e \in DrawableIndices \ VisibleDrawables(drawables) :
          /\ Len(zoneTouches[d]) = 1
          /\ Len(zoneTouches[e]) = 1
          /\ zoneTouches[d] # zoneTouches[e]
          /\ Len(accumulatedLights[d]) = 2

\* The frame leaves the parallel section `section`.
Leaves(section) == pc = section /\ pc' # section

\* C21: parallel sections never overlap.  The visible light list is built
\* only when every visibility work item has run; FinalizeShadowMap and the
\* sort of the lights start only when every UpdateLitGeometriesAndShadowCasters
\* work item has run; the CollectShadowBatches work items are added only when
\* every shadow caster update has run; and FinalizeShadowBatches is called
\* only when every CollectShadowBatches work item has run.
C21_SectionsNeverOverlap ==
    [][ /\ Leaves("visibility") => (pending = {} /\ pc' = "visible")
        /\ Leaves("litGeometries") => (pending = {} /\ pc' = "shadowCasters")
        /\ Leaves("shadowCasters") => (pending = {} /\ pc' = "shadowBatches")
        /\ Leaves("shadowBatches")
              => (pending = {} /\ shadowBatchesFinalized' = 1) ]_vars

\* A frame in which every parallel section had work items is over.
C21_Witness ==
    /\ pc = "lit"
    /\ visibleLights_ # <<>>
    /\ shadowCastersToBeUpdated_ # EmptyBag
    /\ shadowBatchesCollected # EmptyBag
    /\ shadowBatchesFinalized = 1

\* The lights of the GetTemporaryShadowMap calls, in the order of the calls.
RequestedLights == [i \in 1..Len(shadowMapRequests) |-> shadowMapRequests[i].light]

\* The visible lights with a shadow map size other than zero, in the order
\* of visibleLights_.
LightsWithShadowMap ==
    LET HasSize(d) == cachedSceneLights_[d].shadowMapSize # ZERO
    IN  SelectSeq(visibleLights_, HasSize)

\* C28: no shadow map is requested and no FinalizeShaderParameters call is
\* made before the lights are sorted.  Once they are, a shadow map was
\* requested from the callback exactly once for each visible light with a
\* shadow map size other than zero, with that size, and for no light of
\* size zero; the requests were made in the order of the sorted lights,
\* which is one of non-increasing footprint; and FinalizeShaderParameters
\* was called once for every visible light.
C28_ShadowMapsRequestedInSortedOrder ==
    IF SortDone
    THEN /\ RequestedLights = LightsWithShadowMap
         /\ \A i \in 1..Len(shadowMapRequests) :
               /\ shadowMapRequests[i].size # ZERO
               /\ shadowMapRequests[i].size
                     = cachedSceneLights_[shadowMapRequests[i].light].shadowMapSize
               /\ Occurrences(RequestedLights, shadowMapRequests[i].light) = 1
         /\ \A i, j \in 1..Len(shadowMapRequests) :
               i < j => LengthSquared(shadowMapRequests[i].size)
                            >= LengthSquared(shadowMapRequests[j].size)
         /\ Len(shaderParametersFinalized) = Len(visibleLights_)
         /\ \A d \in Range(visibleLights_) :
               Occurrences(shaderParametersFinalized, d) = 1
    ELSE shadowMapRequests = <<>> /\ shaderParametersFinalized = <<>>

\* Three lights are sorted: shadow maps of two footprints were requested,
\* none for the light of size zero.
C28_Witness ==
    /\ SortDone
    /\ Len(visibleLights_) = 3
    /\ Len(shadowMapRequests) = 2
    /\ LengthSquared(shadowMapRequests[1].size)
          > LengthSquared(shadowMapRequests[2].size)
    /\ Len(shaderParametersFinalized) = 3

\* The pairs of a visible light and a split index below its split count.
ShadowSplits ==
    UNION { { <<d, splitIndex>> :
                splitIndex \in 0..(GetNumSplits(cachedSceneLights_[d]) - 1) } :
            d \in Range(visibleLights_) }

\* C29: CollectShadowBatches is invoked at most once for a pair of a
\* visible light and a split index below the split count of the light, and
\* for nothing else; FinalizeShadowBatches of the shadow pass is called at
\* most once and only when every such pair was collected; and when the
\* main light is found every pair was collected once and
\* FinalizeShadowBatches was called once, if the collector has a shadow
\* pass.
C29_ShadowBatchesPerLightAndSplit ==
    /\ BagToSet(shadowBatchesCollected) \subseteq ShadowSplits
    /\ \A pair \in ShadowSplits : CopiesIn(pair, shadowBatchesCollected) <= 1
    /\ shadowBatchesFinalized <= 1
    /\ shadowBatchesFinalized = 1
          => BagToSet(shadowBatchesCollected) = ShadowSplits
    /\ pc \in {"accumulate", "lit"} =>
          /\ BagToSet(shadowBatchesCollected) = ShadowSplits
          /\ shadowBatchesFinalized = IF shadowPass_ THEN 1 ELSE 0

\* Two lights of two splits each: four calls, then FinalizeShadowBatches.
C29_Witness ==
    /\ pc = "lit"
    /\ Cardinality(ShadowSplits) = 4
    /\ BagToSet(shadowBatchesCollected) = ShadowSplits
    /\ shadowBatchesFinalized = 1

\* The indices of the visible lights that light the geometry g, ascending.
LightsOf(g) ==
    LET Lights(i) == g \in SceneLightAt(i).litGeometries
    IN  SelectSeq([i \in 1..Len(visibleLights_) |-> i], Lights)

\* Every light accumulated into g has an entry in the accumulator of g.
NoLightDropped(g) ==
    \A i \in 1..Len(accumulatedLights[g]) :
        \E k \in 1..Len(drawableLighting_[g]) :
            drawableLighting_[g][k].lightIndex = accumulatedLights[g][i]

\* The accumulator the lights of `log` give when they are accumulated one
\* after another, each with the penalty and importance of its entry.
RECURSIVE AccumulatedInOrder(_, _, _)
AccumulatedInOrder(g, log, lights) ==
    IF log = <<>> THEN lights
    ELSE LET entry == CHOOSE e \in Range(drawableLighting_[g]) :
                          e.lightIndex = Head(log)
         IN  AccumulatedInOrder(g, Tail(log),
                AccumulateLight(lights,
                    [ maxPixelLights_ |-> maxPixelLights_,
                      lightImportance_ |-> entry.lightImportance,
                      lightIndex_ |-> entry.lightIndex ],
                    entry.penalty))

\* C30: lights are accumulated only when the main light is found, one light
\* at a time in ascending index of the sorted visible lights: while light i
\* is accumulated every lit geometry of a light before i has that light
\* accumulated and no light after i is accumulated anywhere; no light is
\* accumulated twice into a geometry; and at the end every geometry has
\* exactly the lights that light it, in ascending order, so that its
\* accumulator holds what accumulating them one after another gives,
\* whichever threads ran the work items in whichever order.
C30_OneLightAtATimeAscending ==
    /\ ~MainLightFound =>
          \A g \in DOMAIN accumulatedLights : accumulatedLights[g] = <<>>
    /\ MainLightFound =>
          /\ mainLightIndex_ = FindMainLight(visibleLights_)
          /\ \A g \in DrawableIndices :
                /\ \A i, j \in 1..Len(accumulatedLights[g]) :
                      i < j => accumulatedLights[g][i] < accumulatedLights[g][j]
                /\ \A i \in 1..Len(accumulatedLights[g]) :
                      /\ accumulatedLights[g][i] <= accLight
                      /\ accumulatedLights[g][i] \in 1..Len(visibleLights_)
                      /\ g \in SceneLightAt(accumulatedLights[g][i]).litGeometries
                /\ \A i \in 1..Len(visibleLights_) :
                      (i < accLight /\ g \in SceneLightAt(i).litGeometries)
                          => i \in Range(accumulatedLights[g])
    /\ pc = "lit" =>
          \A g \in DrawableIndices :
              /\ accumulatedLights[g] = LightsOf(g)
              /\ NoLightDropped(g) =>
                    drawableLighting_[g]
                        = AccumulatedInOrder(g, accumulatedLights[g], <<>>)

\* Two lights lit one geometry, the main light among them, and both are in
\* its accumulator.
C30_Witness ==
    /\ pc = "lit"
    /\ mainLightIndex_ # M_MAX_UNSIGNED
    /\ \E g \in DrawableIndices :
          /\ accumulatedLights[g] = <<1, 2>>
          /\ Len(drawableLighting_[g]) = 2

\* ------------------------------------------------------------------ C31

\* The entries of the accumulator of g that are not those of the main light.
OtherLightEntries(g) ==
    { drawableLighting_[g][k] : k \in
        { k \in 1..Len(drawableLighting_[g]) :
            drawableLighting_[g][k].lightIndex # mainLightIndex_ } }

\* penalty > -M_LARGE_VALUE, for a penalty num / den with den > 0.
AboveMainLightPenalty(penalty) ==
    penalty.num >= 0 \/ penalty.num > (0 - M_LARGE_VALUE) * penalty.den

\* C31: the penalty of a light that is not the main light is never negative
\* and is strictly greater than the main light's penalty -M_LARGE_VALUE, at
\* every distance and for every intensity divisor.
C31_PenaltyNeverNegative ==
    \A g \in DrawableIndices : \A entry \in OtherLightEntries(g) :
        /\ entry.penalty.den > 0
        /\ entry.penalty.num >= 0
        /\ AboveMainLightPenalty(entry.penalty)

\* A geometry holds the main light at -M_LARGE_VALUE and another light at
\* the floor M_LARGE_EPSILON / intensityDivisor.
C31_Witness ==
    /\ pc = "lit"
    /\ \E g \in DrawableIndices :
          /\ \E k \in 1..Len(drawableLighting_[g]) :
                /\ drawableLighting_[g][k].lightIndex = mainLightIndex_
                /\ drawableLighting_[g][k].penalty.num = 0 - M_LARGE_VALUE
          /\ \E entry \in OtherLightEntries(g) :
                /\ entry.penalty.num = 1
                /\ entry.penalty.den = LargeEpsilonInv * 2

\* ------------------------------------------------------------------ C32

\* The positions in the call log of the calls made to the pass.
CallsOfPass(pass, call) ==
    { k \in 1..Len(sceneBatchCalls) :
        sceneBatchCalls[k].pass = pass /\ sceneBatchCalls[k].call = call }

\* C32: when CollectSceneBatches has returned, each registered pass was
\* asked to collect once and then to sort once, the passes one after another
\* in registration order, and every pass was given the main light index, the
\* visible lights and the accumulators as lighting accumulation left them.
C32_PassesCollectedThenSortedInOrder ==
    sceneBatchCalls # <<>> =>
        /\ Len(sceneBatchCalls) = 2 * NumPasses
        /\ \A p \in Passes :
              /\ CallsOfPass(p, "CollectSceneBatches") = {2 * p - 1}
              /\ CallsOfPass(p, "SortSceneBatches") = {2 * p}
              /\ sceneBatchCalls[2 * p - 1].mainLightIndex = mainLightIndex_
              /\ sceneBatchCalls[2 * p - 1].visibleLights = visibleLights_
              /\ sceneBatchCalls[2 * p - 1].drawableLighting = drawableLighting_
        /\ pc = "lit"
        /\ accLight = Len(visibleLights_) + 1

\* CollectSceneBatches has returned in a frame with a main light in the
\* accumulator of a geometry.
C32_Witness ==
    /\ sceneBatchCalls # <<>>
    /\ mainLightIndex_ # M_MAX_UNSIGNED
    /\ \E g \in DrawableIndices :
          /\ drawableLighting_[g] # <<>>
          /\ sceneBatchCalls[1].drawableLighting[g] = drawableLighting_[g]

\* ------------------------------------------------------------------ C33

\* C33: when CollectLightVolumeBatches has returned, once or twice in the
\* frame, lightVolumeBatches_ holds one batch per visible light of the
\* frame, batch i with light index i, and nothing of an earlier call or
\* frame.
C33_OneVolumeBatchPerVisibleLight ==
    (pc = "lit" /\ lightVolumeCalls > 0) =>
        /\ Len(lightVolumeBatches_) = Len(visibleLights_)
        /\ \A i \in 1..Len(lightVolumeBatches_) :
              lightVolumeBatches_[i].lightIndex_ = i

\* The second call of a frame that is not the first: the geometry has left
\* the view, the light is visible.
C33_Witness ==
    /\ pc = "lit"
    /\ lightVolumeCalls = 2
    /\ Len(visibleLights_) = 1
    /\ lightVolumeBatches_ = << [ lightIndex_ |-> 1 ] >>
    /\ \E d \in DrawableIndices :
          IsGeometry(drawables[d]) /\ ~drawables[d].inDrawables

\* ------------------------------------------------------------------ C34

\* CollectSceneBatches has returned: the frame is complete.
FrameCompleted == pc = "lit" /\ sceneBatchCalls # <<>>

\* C34: with a work queue that runs every work item it is given, a frame
\* that has begun runs to the return of CollectSceneBatches: every barrier
\* is released.
C34_FrameRunsToCompletion == (pc = "begun") ~> FrameCompleted

\* A complete frame in which every parallel section had work items: lit
\* geometries, a shadow caster outside the view, shadow batches and an
\* accumulated light.
C34_Witness ==
    /\ FrameCompleted
    /\ shadowBatchesCollected # EmptyBag
    /\ \E d \in DrawableIndices : ~drawables[d].inDrawables /\ isUpdated[d]
    /\ \E g \in DrawableIndices : drawableLighting_[g] # <<>>

\* ------------------------------------------------------------------ C35

\* No public function of the collector is running.
BetweenPublicCalls == pc \in {"idle", "begun", "visible", "lit"}

\* C35: between two public calls, in every frame, mainLightIndex_ is
\* M_MAX_UNSIGNED or an index into visibleLights_ as it is then, so that
\* GetMainLight reads inside the list.
C35_MainLightIndexInVisibleLights ==
    BetweenPublicCalls =>
        \/ mainLightIndex_ = M_MAX_UNSIGNED
        \/ mainLightIndex_ \in 1..Len(visibleLights_)

\* ------------------------------------------------------------------ C36

\* The light indices the accumulator of drawable d holds.
AccumulatorLightIndices(d) ==
    { drawableLighting_[d][k].lightIndex : k \in 1..Len(drawableLighting_[d]) }
        \ {M_MAX_UNSIGNED}

\* C36: when ProcessVisibleLights has returned, the accumulator of every
\* drawable of the scene, visible in the frame or not, holds only indices
\* into visibleLights_ of lights that lit the drawable in this frame.
C36_NoAccumulatorEntryOfEarlierFrame ==
    pc = "lit" =>
        \A d \in DrawableIndices : \A i \in AccumulatorLightIndices(d) :
            /\ i \in 1..Len(visibleLights_)
            /\ d \in cachedSceneLights_[visibleLights_[i]].litGeometries

\* ------------------------------------------------------------------ C37

\* SceneLight::BeginFrame was called for the visible lights of the frame.
LightsBegun ==
    pc \in {"litGeometries", "shadowCasters", "shadowBatches", "accumulate",
            "lit"}

\* C37: without a shadow pass the callback is never asked HasShadow, every
\* visible light is begun with the shadow flag false, no CollectShadowBatches
\* work item is submitted or run and FinalizeShadowBatches is never called.
C37_AbsentShadowPassNeverUsed ==
    ~shadowPass_ =>
        /\ hasShadowCalls = <<>>
        /\ LightsBegun =>
              \A i \in 1..Len(visibleLights_) :
                  ~cachedSceneLights_[visibleLights_[i]].hasShadow
        /\ pc = "shadowBatches" => pending = {}
        /\ shadowBatchesCollected = EmptyBag
        /\ shadowBatchesFinalized = 0

\* ProcessVisibleLights has returned without a shadow pass, with a visible
\* light for which the callback would report a shadow.
C37_Witness ==
    /\ ~shadowPass_
    /\ pc = "lit"
    /\ \E i \in 1..Len(visibleLights_) :
          /\ drawables[visibleLights_[i]].castShadows
          /\ drawables[visibleLights_[i]].numSplits = 2

\* ------------------------------------------------------------------ C38

\* The state of the collector, which RmlUI does not touch.
collectorVars ==
    << drawables, pc, pending, isUpdated, traits, visibleGeometries_,
       visibleLightsTemp_, threadedGeometryUpdates_,
       nonThreadedGeometryUpdates_, passBatches, visibleLights_,
       cachedSceneLights_, shadowCastersToBeUpdated_, shadowPass_,
       mainLightIndex_, accLight, drawableLighting_, maxPixelLights_,
       lightVolumeBatches_, drawableVars, sceneLightsCreated,
       beginFrameCalls, visibilityVars, callVars, passVars >>

\* RmlUI::RmlUI, rmlInstanceCounter.fetch_add(1) == 0: the thread that reads
\* zero goes on to initialise the library, every other thread goes straight
\* to Rml::CreateContext.
RmlUI_FetchAdd(t) ==
    /\ rmlPc[t] = "none"
    /\ rmlCalls.RmlUI < MaxRmlObjects
    /\ rmlInstanceCounter' = rmlInstanceCounter + 1
    /\ rmlPc' = [rmlPc EXCEPT ![t] = IF rmlInstanceCounter = 0
                                        THEN "Initialise"
                                        ELSE "CreateContext"]
    /\ rmlCalls' = [rmlCalls EXCEPT !.RmlUI = @ + 1]
    /\ UNCHANGED << rmlBackend, collectorVars >>

\* RmlUI::RmlUI, the body of the if: the interfaces are set, Rml::Initialise
\* is called and the instancers are registered.
RmlUI_Initialise(t) ==
    /\ rmlPc[t] = "Initialise"
    /\ rmlBackend' = "up"
    /\ rmlCalls' = [rmlCalls EXCEPT !.Initialise = @ + 1]
    /\ rmlPc' = [rmlPc EXCEPT ![t] = "CreateContext"]
    /\ UNCHANGED << rmlInstanceCounter, collectorVars >>

\* RmlUI::RmlUI, Rml::CreateContext and what follows it: the object is
\* constructed. The call is recorded as made without the library when the
\* library is not initialised.
RmlUI_CreateContext(t) ==
    /\ rmlPc[t] = "CreateContext"
    /\ rmlCalls' = [rmlCalls EXCEPT
                       !.CreateContext = @ + 1,
                       !.withoutLibrary = @ \/ rmlBackend = "down"]
    /\ rmlPc' = [rmlPc EXCEPT ![t] = "constructed"]
    /\ UNCHANGED << rmlInstanceCounter, rmlBackend, collectorVars >>

\* RmlUI::~RmlUI, Rml::RemoveContext of the context of the object.
Destructor_RemoveContext(t) ==
    /\ rmlPc[t] = "constructed"
    /\ rmlCalls' = [rmlCalls EXCEPT
                       !.withoutLibrary = @ \/ rmlBackend = "down"]
    /\ rmlPc' = [rmlPc EXCEPT ![t] = "fetch_sub"]
    /\ UNCHANGED << rmlInstanceCounter, rmlBackend, collectorVars >>

\* RmlUI::~RmlUI, rmlInstanceCounter.fetch_sub(1) == 1: the thread that reads
\* one goes on to shut the library down.
Destructor_FetchSub(t) ==
    /\ rmlPc[t] = "fetch_sub"
    /\ rmlInstanceCounter' = rmlInstanceCounter - 1
    /\ rmlPc' = [rmlPc EXCEPT ![t] = IF rmlInstanceCounter = 1
                                        THEN "Shutdown"
                                        ELSE "none"]
    /\ UNCHANGED << rmlBackend, rmlCalls, collectorVars >>

\* RmlUI::~RmlUI, the body of the if: Rml::Shutdown.
Destructor_Shutdown(t) ==
    /\ rmlPc[t] = "Shutdown"
    /\ rmlBackend' = "down"
    /\ rmlCalls' = [rmlCalls EXCEPT !.Shutdown = @ + 1]
    /\ rmlPc' = [rmlPc EXCEPT ![t] = "none"]
    /\ UNCHANGED << rmlInstanceCounter, collectorVars >>

NextRml ==
    \E t \in 1..NumRmlThreads :
        \/ RmlUI_FetchAdd(t)
        \/ RmlUI_Initialise(t)
        \/ RmlUI_CreateContext(t)
        \/ Destructor_RemoveContext(t)
        \/ Destructor_FetchSub(t)
        \/ Destructor_Shutdown(t)

\* RmlUI objects constructed and destroyed by threads that run concurrently,
\* from a state in which no RmlUI object exists and no collector is in use.
SpecRml == Constructed(<< >>) /\ [][NextRml]_vars

\* C38: no RmlUI object creates or removes its context while the RmlUi
\* library is not initialised, the library is initialised while an object is
\* constructed, and it is initialised once for every time the instance count
\* leaves zero and shut down once for every time it returns to zero.
C38_BackendInitialisedWhileInUse ==
    /\ ~rmlCalls.withoutLibrary
    /\ (\E t \in 1..NumRmlThreads : rmlPc[t] = "constructed")
          => rmlBackend = "up"
    /\ rmlCalls.Initialise - rmlCalls.Shutdown \in {0, 1}

====
